---- MODULE Spec2Model ----
(***************************************************************************)
(* Client-side synchronization engine of the health-tech app:              *)
(*   - the offline persistent queue (utils/ingestQueue.js),                *)
(*   - the session refresh coordinator and transport retry                 *)
(*     (services/api.js response interceptor, config.js refreshTokenFunc), *)
(*   - the accelerometer chunk builder (services/imuSync.js).              *)
(* Every asynchronous function is cut at its awaits: one action runs the   *)
(* synchronous code between two suspension points.  AsyncStorage executes  *)
(* its operations in the order they are issued, so a getItem / setItem     *)
(* takes effect in the action that issues it and the caller resumes in a   *)
(* later action.                                                           *)
(***************************************************************************)
EXTENDS Integers, Sequences, FiniteSets, TLC

(***************************************************************************)
(* Bounds of the model and program constants                               *)
(***************************************************************************)
\* number of payloads handed to enqueue by the application
MaxPayloads == 3
\* number of queue item ids that generateId hands out
MaxIds == 4
\* largest clock reading (milliseconds) taken by new Date()
MaxTime == 1
\* options.maxQueueSize the queue is constructed with
maxQueueSize == 2
\* options.batchSize the queue is constructed with
batchSize == 2
\* options.maxRetries the queue is constructed with
maxRetries == 1
\* module constant MAX_RETRIES
MAX_RETRIES == 3
\* number of API requests the application makes
NReq == 3
\* number of token pairs the server issues through POST /refresh
MaxTok == 2
\* number of runs of the scheduled refresh task
MaxManual == 1
\* longest stored queue handed to a stand-alone dequeue call
MaxLen == 3
\* largest enqueue time of an item of that queue
MaxStamp == 2
\* largest maxBatch argument of a stand-alone dequeue call
MaxBatch == 3
\* number of addSample calls the sensor stream makes
MaxCalls == 6
\* largest explicit tOffsetMs argument of addSample
MaxOffset == 1
\* largest reading of the sample clock (ts argument, new Date()), counted in
\* chunk durations
MaxTs == 2
\* largest options.sampleRateHz below the default handed to IMUSyncManager
MaxRateHz == 8
\* largest options.chunkDurationMs handed to IMUSyncManager, in seconds
MaxDurationS == 5
\* number of record types in RECORD_TYPES
NTypes == 3
\* largest number of records readRecords returns for one type
MaxRecords == 2
\* largest number of records of a legacy type read by sync
MaxLegacyRecords == 4
\* number of chunks a sensor stream seals
MaxChunks == 3
\* sampleRateHz the chunk builder is constructed with
sampleRateHz == 1
\* AccelerometerChunkBuilder.chunkDurationMs
chunkDurationMs == 5000
\* options.retryDelays the queue is constructed with
retryDelays == <<2000, 4000>>
\* module constant RETRY_DELAYS
RETRY_DELAYS == <<1000, 5000, 15000>>

Priorities == {"high", "normal", "low"}
\* concurrent callers of enqueue from the application (sensor stream, sync)
EnqProcs == {"e1"}
\* frames of concurrent flush calls (auto-processing timer, manual flush
\* button); a call takes the first free frame
FlushProcs == {"f1", "f2"}
\* every context that can run the body of enqueue: flush re-enqueues in line
Callers == EnqProcs \cup FlushProcs

VARIABLES
  storage,       \* AsyncStorage value under QUEUE_KEY: sequence of items
  isProcessing,  \* IngestQueue.isProcessing
  now,           \* the clock read by new Date()
  nextId,        \* ids handed out so far + 1 (generateId is unique)
  nextPayload,   \* next payload the application will enqueue
  ePc,           \* position of each enqueue call
  eItems,        \* local `items` of each enqueue call
  eArg,          \* arguments of each enqueue call
  eEvicted,      \* item removed by the capacity branch of the call (or NoItem)
  fPc,           \* position of each flush call
  fBatch,        \* local `items` of flush: the dequeued batch
  fIdx,          \* index of the batch item being processed
  fCnt,          \* local counters success / failed / retried
  dItems,        \* local `items` of the dequeue call made by flush
  fRet,          \* value returned by the last flush call of the caller
  fRefused,      \* history: the last flush call of the caller met the guard
  fDelay,        \* delay of the pending backoff timer
  accessTok,     \* AsyncStorage 'login': the access token, 0 when absent
  refreshTok,    \* AsyncStorage 'refreshToken', 0 when absent
  nextTok,       \* the next token pair POST /refresh will issue
  isRefreshing,  \* api.js module variable isRefreshing
  refreshSubscribers, \* api.js module variable: the waiting requests, in order
  rPc,           \* position of each request and of its response interceptor
  retryFlag,     \* originalRequest._retry
  hdr,           \* token in the Authorization header of the request on the
                 \* wire, 0 for none/null or when the request is not in flight
  sends,         \* number of times the request went on the wire
  resp,          \* class of the response to the last send
  rLocal,        \* locals of the interceptor: storedRefreshToken, new tokens
  refreshCalls,  \* history: POST /refresh calls issued by the interceptor
  firstOutcome,  \* history: how the first refresh attempt ended
  firstTok,      \* history: access token of the first successful refresh
  lateJoin,      \* history: an auth failure was seen after that attempt ended
  notified,      \* history: tokens each request's subscriber callback was
                 \* called with, in order (0 for null)
  refreshFailures, \* history: refresh attempts that entered the catch block
  subscribedTo,  \* history: for a subscribed request, the request whose
                 \* refresh attempt was in progress when it subscribed
  handlerCalls,  \* history: calls of global.authErrorHandler
  mPc,           \* position of refreshTokenFunc (config.js)
  mLocal,        \* locals of refreshTokenFunc
  mRuns,         \* runs of refreshTokenFunc started so far
  dqItems,       \* stand-alone dequeue: the stored queue it loads
  dqMaxBatch,    \* stand-alone dequeue: its maxBatch argument
  dqOut,         \* stand-alone dequeue: the items it returned
  dqLeft,        \* stand-alone dequeue: the queue it saved
  dqPc,          \* stand-alone dequeue: "call" before, "done" after
  samples,       \* AccelerometerChunkBuilder.samples: the buffer
  startedAt,     \* AccelerometerChunkBuilder.startedAt, Null when unset
  added,         \* addSample calls made so far
  lastCall,      \* the last builder method called
  lastChunk,     \* what that call returned: a chunk, or NoChunk for null
  streak,        \* history: addSample calls since the builder was constructed
                 \* or force-flushed
  sealed,        \* history: chunks addSample returned during those calls
  emitted,       \* history: the readings of the samples of every chunk the
                 \* builder returned, in the order returned
  optSampleRateHz,    \* options.sampleRateHz of the manager, 0 when not given
  optChunkDurationMs, \* options.chunkDurationMs of the manager, 0 when not given
  mgrSampleRateHz,    \* IMUSyncManager.sampleRateHz
  mgrChunkDurationMs, \* IMUSyncManager.chunkDurationMs
  mgrMaxSamples,      \* maxSamples of the manager's chunkBuilder
  mgrPc,              \* "idle": no manager; "new" before, "built" after the
                      \* constructor
  nativeSource,  \* useSensorStream: WearSensorModule is available, the chunks
                 \* come from the native module and not from the manager
  autoSync,      \* option autoSync of useSensorStream and of the manager
  isStreaming,   \* IMUSyncManager.isStreaming / isAccelerometerActive
  nativeBuffered, \* the native module holds samples of an unsent chunk
  chunkFate,     \* per sealed chunk: "sending", "enqueueing", "acked",
                 \* "stored", "dropped"; "none" before it is sealed
  chunksSealed,  \* history: chunks sealed so far
  syncPc,        \* position of syncAll (services/healthSync.js); "idle" when
                 \* it is not called
  skipPermissionCheck, \* option of syncAll
  onProgress,    \* option of syncAll: "none", or what the callback does
  parallelMode,  \* config.migration.parallelMode
  typeIdx,       \* the record type syncAll is reading or submitting
  recordCounts,  \* per type: number of records read (0 after a failed read)
  totalRecords,  \* local of syncAll
  syncedRecords, \* local of syncAll
  results,       \* local of syncRecordsToEndpoint: per endpoint "none", "sent",
                 \* "ok" or "error"
  progress,      \* history: what onProgress was called with, in order
  events,        \* history: what EventEmitter.emit was called with, in order
  syncResult,    \* what syncAll returned, Null before
  readFailed,    \* history: types whose readRecords call rejected
  typeResults,   \* history: per type the results of its submission
  errStatus,     \* error.response.status of a failed call, Null without a
                 \* response
  errInvalidTokenBody, \* the detail or message of the response body contains
                 \* 'invalid token'
  errRequest,    \* error.request is set
  errCode,       \* error.code
  errType,       \* ApiError.type, "none" before the error is classified
  interval,      \* the timer of startAutoProcessing: "none", "set", "cleared"
  tickPc,        \* per timer callback: "idle", "count" (awaits getPendingCount),
                 \* "call" (about to call flush), "flush" (awaits flush)
  pendingCount,  \* local of the timer callback
  tickFrame,     \* the flush call the timer callback awaits, "none" if none
  legacyRecords, \* sync of App.js: number of records read for a type of the
                 \* legacy set, Null before the read
  legacyPc,      \* per record of that type: "none", "timer" (setTimeout
                 \* pending), "read" (awaits readRecord), "post" (awaits
                 \* axios.post), "done"
  numRecordsSynced, \* local of sync
  errData,       \* error.response.data of a failed call, as the set of its
                 \* fields (path of keys from the root, value)
  errAuthorization, \* the Authorization header of the failed request,
                 \* "absent" if none
  logPc,         \* "idle", "failed", "intercepted" (the interceptor has
                 \* logged), "logged" (logApiError has logged too)
  consoleData,   \* what the response interceptor logged as response data
  detailsData,   \* ApiError.details.responseData
  detailsAuthorization, \* ApiError.details.headers.Authorization
  delivered,     \* history: payloads ingestRecords has accepted
  evicted,       \* history: payloads removed by the capacity branch of enqueue
  storageQ       \* callers whose AsyncStorage operation has not called back
                 \* yet, in the order the operations were issued (a caller
                 \* of the queue, a request, or Manual for refreshTokenFunc)

qvars == <<storage, isProcessing, now, nextId, nextPayload, ePc, eItems, eArg,
           eEvicted, fPc, fBatch, fIdx, fCnt, dItems, fRet, fRefused, fDelay>>

hvars == <<notified, refreshFailures, handlerCalls, subscribedTo>>

avars == <<accessTok, refreshTok, nextTok, isRefreshing, refreshSubscribers,
           rPc, retryFlag, hdr, sends, resp, rLocal, refreshCalls, firstOutcome,
           firstTok, lateJoin, hvars>>

mvars == <<mPc, mLocal, mRuns>>

dvars == <<dqItems, dqMaxBatch, dqOut, dqLeft, dqPc>>

lvars == <<delivered, evicted>>

cvars == <<samples, startedAt, added, lastCall, lastChunk, streak, sealed,
           emitted>>

ovars == <<optSampleRateHz, optChunkDurationMs, mgrSampleRateHz,
           mgrChunkDurationMs, mgrMaxSamples, mgrPc>>

svars == <<nativeSource, autoSync, isStreaming, nativeBuffered, chunkFate,
           chunksSealed>>

yvars == <<syncPc, skipPermissionCheck, onProgress, parallelMode, typeIdx,
           recordCounts, totalRecords, syncedRecords, results, progress, events,
           syncResult, readFailed, typeResults>>

evars == <<errStatus, errInvalidTokenBody, errRequest, errCode, errType>>

tvars == <<interval, tickPc, pendingCount, tickFrame>>

gvars == <<legacyRecords, legacyPc, numRecordsSynced>>

rvars == <<errData, errAuthorization, logPc, consoleData, detailsData,
           detailsAuthorization>>

vars == <<qvars, avars, mvars, storageQ, dvars, lvars, cvars, ovars, svars, yvars,
          evars, tvars, gvars, rvars>>

(***************************************************************************)
(* QueueItem and pure helpers                                              *)
(***************************************************************************)
NoItem == [id |-> 0, recordType |-> "none", data |-> 0, priority |-> "none",
           timestamp |-> 0, retries |-> 0]

\* new QueueItem(id, recordType, data, priority): timestamp defaults to the
\* clock, retries defaults to 0
QueueItem(id, recordType, data, priority, timestamp) ==
  [id |-> id, recordType |-> recordType, data |-> data, priority |-> priority,
   timestamp |-> timestamp, retries |-> 0]

getPriorityWeight(priority) ==
  CASE priority = "high" -> 3
    [] priority = "normal" -> 2
    [] priority = "low" -> 1
    [] OTHER -> 2

shouldRetry(item) == item.retries < MAX_RETRIES

\* mutant of incrementRetries: a failure counts twice
incrementRetriesTwice(item) == [item EXCEPT !.retries = @ + 2]

incrementRetries(item) == [item EXCEPT !.retries = @ + 1]

Min(a, b) == IF a <= b THEN a ELSE b

getRetryDelay(item) == RETRY_DELAYS[Min(item.retries, Len(RETRY_DELAYS) - 1) + 1]

\* the comparator of both sorts: negative when a goes before b
compareItems(a, b) ==
  LET priorityDiff == getPriorityWeight(b.priority) - getPriorityWeight(a.priority)
  IN IF priorityDiff # 0 THEN priorityDiff ELSE a.timestamp - b.timestamp

RECURSIVE InsertSorted(_, _)
InsertSorted(x, s) ==
  IF s = <<>> THEN <<x>>
  ELSE IF compareItems(x, Head(s)) < 0 THEN <<x>> \o s
  ELSE <<Head(s)>> \o InsertSorted(x, Tail(s))

\* Array.prototype.sort with compareItems (a stable sort)
RECURSIVE sortItems(_)
sortItems(s) ==
  IF s = <<>> THEN <<>>
  ELSE InsertSorted(s[Len(s)], sortItems(SubSeq(s, 1, Len(s) - 1)))

RemoveAt(s, i) == SubSeq(s, 1, i - 1) \o SubSeq(s, i + 1, Len(s))

Range(s) == {s[i] : i \in 1..Len(s)}
Ids(s) == {s[i].id : i \in 1..Len(s)}

\* sortedItems.findIndex(item => item.priority === 'low'), 0 when absent
lowPriorityIndex(s) ==
  IF \E i \in 1..Len(s) : s[i].priority = "low"
  THEN CHOOSE i \in 1..Len(s) :
         /\ s[i].priority = "low"
         /\ \A j \in 1..(i - 1) : s[j].priority # "low"
  ELSE 0

\* mutant of evictIndex: the capacity branch always pops the last element
evictIndexAlwaysPop(s) == Len(s)

\* index removed by the capacity branch of enqueue: the first low-priority
\* item of the sorted list, else the last element (sortedItems.pop())
evictIndex(s) == IF lowPriorityIndex(s) # 0 THEN lowPriorityIndex(s) ELSE Len(s)

\* mutant of atCapacity: the capacity branch is taken one item too late
atCapacityOffByOne(items) == Len(items) > maxQueueSize

\* the test guarding the capacity branch
atCapacity(items) == Len(items) >= maxQueueSize

\* AsyncStorage runs the operations one at a time and calls back in the order
\* they were issued: the caller resumes when its operation is the oldest
storageCallback(p) == storageQ # <<>> /\ Head(storageQ) = p

NoArg == [data |-> 0, priority |-> "none"]

ZeroCounts == [success |-> 0, failed |-> 0, retried |-> 0]
\* no flush call of the caller has returned yet, or one is running
NoResult == [success |-> -1, failed |-> -1, retried |-> -1]

(***************************************************************************)
(* Initial state: a freshly constructed queue over empty storage           *)
(***************************************************************************)
InitQueue ==
  /\ storage = <<>>
  /\ storageQ = <<>>
  /\ isProcessing = FALSE
  /\ now = 0
  /\ nextId = 1
  /\ nextPayload = 1
  /\ ePc = [c \in Callers |-> "idle"]
  /\ eItems = [c \in Callers |-> <<>>]
  /\ eArg = [c \in Callers |-> NoArg]
  /\ eEvicted = [c \in Callers |-> NoItem]
  /\ fPc = [f \in FlushProcs |-> "idle"]
  /\ fBatch = [f \in FlushProcs |-> <<>>]
  /\ fIdx = [f \in FlushProcs |-> 0]
  /\ fCnt = [f \in FlushProcs |-> ZeroCounts]
  /\ dItems = [f \in FlushProcs |-> <<>>]
  /\ fRet = [f \in FlushProcs |-> NoResult]
  /\ fRefused = [f \in FlushProcs |-> FALSE]
  /\ fDelay = [f \in FlushProcs |-> 0]

(***************************************************************************)
(* enqueue(recordType, data, priority)                                     *)
(***************************************************************************)
\* ids still free once every enqueue call already past its guard has taken one
idsLeft == MaxIds + 1 - nextId - Cardinality({c \in Callers : ePc[c] \in {"load", "evict"}})

\* the readings new Date() can return at the next call
ClockReadings == {now} \cup (IF now < MaxTime THEN {now + 1} ELSE {})

\* first await of enqueue: loadQueue() issues the read of the stored queue
enqueueIssueLoad(c, data, priority) ==
  /\ ePc' = [ePc EXCEPT ![c] = "load"]
  /\ eItems' = [eItems EXCEPT ![c] = storage]
  /\ eArg' = [eArg EXCEPT ![c] = [data |-> data, priority |-> priority]]
  /\ eEvicted' = [eEvicted EXCEPT ![c] = NoItem]

\* the frame of an enqueue call is discarded when the call returns
enqueueExit(c) ==
  /\ ePc' = [ePc EXCEPT ![c] = "idle"]
  /\ eItems' = [eItems EXCEPT ![c] = <<>>]
  /\ eArg' = [eArg EXCEPT ![c] = NoArg]
  /\ eEvicted' = [eEvicted EXCEPT ![c] = NoItem]

\* lines 182-186: build the item, push it, saveQueue(items)
enqueuePushAndSave(c, items) ==
  \E t \in ClockReadings :
    LET item == QueueItem(nextId, "Accelerometer", eArg[c].data, eArg[c].priority, t)
    IN /\ now' = t
       /\ nextId' = nextId + 1
       /\ eItems' = [eItems EXCEPT ![c] = Append(items, item)]
       /\ storage' = Append(items, item)
       /\ ePc' = [ePc EXCEPT ![c] = "save"]

\* the application calls enqueue
Enqueue(c, priority) ==
  /\ c \in EnqProcs
  /\ ePc[c] = "idle"
  /\ nextPayload <= MaxPayloads
  /\ idsLeft >= 1
  /\ enqueueIssueLoad(c, nextPayload, priority)
  /\ nextPayload' = nextPayload + 1
  /\ storageQ' = Append(storageQ, c)
  /\ UNCHANGED <<storage, isProcessing, now, nextId, fPc, fBatch, fIdx, fCnt,
                 dItems, fRet, fRefused, fDelay>>

\* loadQueue resolved: the capacity branch (lines 160-180) or the push
EnqueueAfterLoad(c) ==
  /\ ePc[c] = "load"
  /\ storageCallback(c)
  /\ storageQ' = Append(Tail(storageQ), c)
  /\ IF atCapacity(eItems[c])
     THEN LET sortedItems == sortItems(eItems[c])
              k == evictIndex(sortedItems)
          IN /\ eEvicted' = [eEvicted EXCEPT ![c] = sortedItems[k]]
             /\ eItems' = [eItems EXCEPT ![c] = RemoveAt(sortedItems, k)]
             /\ storage' = RemoveAt(sortedItems, k)
             /\ ePc' = [ePc EXCEPT ![c] = "evict"]
             /\ UNCHANGED <<now, nextId>>
     ELSE /\ enqueuePushAndSave(c, eItems[c])
          /\ UNCHANGED eEvicted
  /\ UNCHANGED <<isProcessing, nextPayload, eArg, fPc, fBatch, fIdx, fCnt,
                 dItems, fRet, fRefused, fDelay>>

\* the save of the capacity branch resolved: push and save again
EnqueueAfterEvict(c) ==
  /\ ePc[c] = "evict"
  /\ storageCallback(c)
  /\ storageQ' = Append(Tail(storageQ), c)
  /\ enqueuePushAndSave(c, eItems[c])
  /\ UNCHANGED <<isProcessing, nextPayload, eArg, eEvicted, fPc, fBatch, fIdx,
                 fCnt, dItems, fRet, fRefused, fDelay>>

\* the final save resolved: enqueue returns the id to the application
EnqueueReturn(c) ==
  /\ c \in EnqProcs
  /\ ePc[c] = "save"
  /\ storageCallback(c)
  /\ storageQ' = Tail(storageQ)
  /\ enqueueExit(c)
  /\ UNCHANGED <<storage, isProcessing, now, nextId, nextPayload, fPc, fBatch,
                 fIdx, fCnt, dItems, fRet, fRefused, fDelay>>

(***************************************************************************)
(* dequeue(maxBatch) and flush(maxBatch)                                   *)
(***************************************************************************)
\* mutant of dequeueTake: the stored order is kept, priorities are ignored
dequeueTakeUnsorted(items, maxBatch) == SubSeq(items, 1, Min(maxBatch, Len(items)))

\* sortedItems.splice(0, Math.min(batchSize, sortedItems.length)): the items
\* removed, and the items saved back
dequeueTake(items, maxBatch) ==
  SubSeq(sortItems(items), 1, Min(maxBatch, Len(items)))
dequeueKeep(items, maxBatch) ==
  SubSeq(sortItems(items), Min(maxBatch, Len(items)) + 1, Len(items))

\* flush calls dequeue with the configured batch size
dequeuedItems(items) == dequeueTake(items, batchSize)
remainingItems(items) == dequeueKeep(items, batchSize)

\* mutant of flushGuard: flush never looks at the flag
flushGuardIgnored == FALSE

\* the single-flight guard of flush (line 281)
flushGuard == isProcessing

\* the finally block and the return of flush
flushReturn(f, counts) ==
  /\ isProcessing' = FALSE
  /\ fRet' = [fRet EXCEPT ![f] = counts]
  /\ fPc' = [fPc EXCEPT ![f] = "returned"]
  /\ fBatch' = [fBatch EXCEPT ![f] = <<>>]
  /\ fIdx' = [fIdx EXCEPT ![f] = 0]
  /\ fCnt' = [fCnt EXCEPT ![f] = ZeroCounts]
  /\ dItems' = [dItems EXCEPT ![f] = <<>>]

\* mutant of flushNextItem: the loop is left after the first item it handled
flushStopsAfterFirstItem(f, counts) == flushReturn(f, counts)

\* the for loop moves to the next item of the batch, or flush returns
flushNextItem(f, counts) ==
  IF fIdx[f] < Len(fBatch[f])
  THEN /\ fIdx' = [fIdx EXCEPT ![f] = @ + 1]
       /\ fCnt' = [fCnt EXCEPT ![f] = counts]
       /\ fPc' = [fPc EXCEPT ![f] = "send"]
       /\ UNCHANGED <<isProcessing, fRet, fBatch, dItems>>
  ELSE flushReturn(f, counts)

\* mutant of nothingDequeued: flush enters its loop whatever dequeue returned
nothingDequeuedIgnored(items) == FALSE

\* dequeue found no stored item (line 201), so flush gets an empty batch and
\* returns the zero counts (lines 291-293)
nothingDequeued(items) == Len(items) = 0

\* the frame a new flush call runs in
freeFrame == IF fPc["f1"] = "idle" THEN "f1" ELSE "f2"

\* flush is called: refused by the guard, or it takes the flag and calls dequeue
Flush(f) ==
  /\ f = freeFrame
  /\ fPc[f] = "idle"
  /\ IF flushGuard
     THEN /\ fRet' = [fRet EXCEPT ![f] = ZeroCounts]
          /\ fRefused' = [fRefused EXCEPT ![f] = TRUE]
          /\ fPc' = [fPc EXCEPT ![f] = "returned"]
          /\ UNCHANGED <<isProcessing, dItems, storageQ>>
     ELSE /\ isProcessing' = TRUE
          /\ storageQ' = Append(storageQ, f)
          /\ UNCHANGED <<fRet, fRefused>>
          /\ dItems' = [dItems EXCEPT ![f] = storage]
          /\ fPc' = [fPc EXCEPT ![f] = "dqLoad"]
  /\ UNCHANGED <<storage, now, nextId, nextPayload, ePc, eItems, eArg, eEvicted,
                 fBatch, fIdx, fCnt, fDelay>>

\* loadQueue of dequeue resolved: nothing to do, or sort, splice and save
FlushAfterLoad(f) ==
  /\ fPc[f] = "dqLoad"
  /\ storageCallback(f)
  /\ IF nothingDequeued(dItems[f])
     THEN /\ flushReturn(f, ZeroCounts)
          /\ storageQ' = Tail(storageQ)
          /\ UNCHANGED storage
     ELSE /\ storage' = remainingItems(dItems[f])
          /\ storageQ' = Append(Tail(storageQ), f)
          /\ fBatch' = [fBatch EXCEPT ![f] = dequeuedItems(dItems[f])]
          /\ dItems' = [dItems EXCEPT ![f] = remainingItems(dItems[f])]
          /\ fPc' = [fPc EXCEPT ![f] = "dqSave"]
          /\ UNCHANGED <<isProcessing, fRet, fIdx, fCnt>>
  /\ UNCHANGED <<now, nextId, nextPayload, ePc, eItems, eArg, eEvicted,
                 fRefused, fDelay>>

\* saveQueue of dequeue resolved: the loop starts, ingestRecords(first item)
FlushAfterSave(f) ==
  /\ fPc[f] = "dqSave"
  /\ storageCallback(f)
  /\ storageQ' = Tail(storageQ)
  /\ fIdx' = [fIdx EXCEPT ![f] = 1]
  /\ fCnt' = [fCnt EXCEPT ![f] = ZeroCounts]
  /\ dItems' = [dItems EXCEPT ![f] = <<>>]
  /\ fPc' = [fPc EXCEPT ![f] = "send"]
  /\ UNCHANGED <<storage, isProcessing, now, nextId, nextPayload, ePc, eItems,
                 eArg, eEvicted, fBatch, fRet, fRefused, fDelay>>

\* ingestRecords resolved
SendOk(f) ==
  /\ fPc[f] = "send"
  /\ flushNextItem(f, [fCnt[f] EXCEPT !.success = @ + 1])
  /\ UNCHANGED <<storageQ, storage, now, nextId, nextPayload, ePc, eItems, eArg, eEvicted,
                 fRefused, fDelay>>

\* ingestRecords rejected: re-enqueue (lines 309-316) or give up (317-321)
SendFail(f) ==
  /\ fPc[f] = "send"
  /\ LET item == fBatch[f][fIdx[f]]
     IN IF shouldRetry(item)
        THEN /\ idsLeft >= 1
             /\ fBatch' = [fBatch EXCEPT ![f][fIdx[f]] = incrementRetries(item)]
             /\ enqueueIssueLoad(f, item.data, item.priority)
             /\ storageQ' = Append(storageQ, f)
             /\ fPc' = [fPc EXCEPT ![f] = "reenq"]
             /\ UNCHANGED <<isProcessing, fIdx, fCnt, fRet, dItems>>
        ELSE /\ flushNextItem(f, [fCnt[f] EXCEPT !.failed = @ + 1])
             /\ UNCHANGED <<ePc, eItems, eArg, eEvicted, storageQ>>
  /\ UNCHANGED <<storage, now, nextId, nextPayload, fRefused, fDelay>>

\* the re-enqueue returned: count it and start the backoff timer
ReenqueueReturn(f) ==
  /\ fPc[f] = "reenq"
  /\ ePc[f] = "save"
  /\ storageCallback(f)
  /\ storageQ' = Tail(storageQ)
  /\ enqueueExit(f)
  /\ fCnt' = [fCnt EXCEPT ![f].retried = @ + 1]
  /\ fDelay' = [fDelay EXCEPT ![f] = getRetryDelay(fBatch[f][fIdx[f]])]
  /\ fPc' = [fPc EXCEPT ![f] = "backoff"]
  /\ UNCHANGED <<storage, isProcessing, now, nextId, nextPayload, fBatch, fIdx,
                 dItems, fRet, fRefused>>

\* the backoff timer fired
BackoffDone(f) ==
  /\ fPc[f] = "backoff"
  /\ fDelay' = [fDelay EXCEPT ![f] = 0]
  /\ flushNextItem(f, fCnt[f])
  /\ UNCHANGED <<storageQ, storage, now, nextId, nextPayload, ePc, eItems, eArg, eEvicted,
                 fRefused>>

\* the caller of flush resumes with the returned counts
FlushDone(f) ==
  /\ fPc[f] = "returned"
  /\ fPc' = [fPc EXCEPT ![f] = "idle"]
  /\ fRet' = [fRet EXCEPT ![f] = NoResult]
  /\ fRefused' = [fRefused EXCEPT ![f] = FALSE]
  /\ UNCHANGED <<storageQ, storage, isProcessing, now, nextId, nextPayload, ePc, eItems,
                 eArg, eEvicted, fBatch, fIdx, fCnt, dItems, fDelay>>

\* a resolved promise runs its continuation (a microtask) before the event
\* loop delivers the next storage, network or timer callback
microtaskPending == \E f \in FlushProcs : fPc[f] = "returned"

QueueEvent ==
  \/ \E c \in EnqProcs, priority \in Priorities : Enqueue(c, priority)
  \/ \E c \in Callers : EnqueueAfterLoad(c)
  \/ \E c \in Callers : EnqueueAfterEvict(c)
  \/ \E c \in EnqProcs : EnqueueReturn(c)
  \/ \E f \in FlushProcs : Flush(f)
  \/ \E f \in FlushProcs : FlushAfterLoad(f)
  \/ \E f \in FlushProcs : FlushAfterSave(f)
  \/ \E f \in FlushProcs : SendOk(f)
  \/ \E f \in FlushProcs : SendFail(f)
  \/ \E f \in FlushProcs : ReenqueueReturn(f)
  \/ \E f \in FlushProcs : BackoffDone(f)

NextQueue ==
  \/ \E f \in FlushProcs : FlushDone(f)
  \/ ~microtaskPending /\ QueueEvent

(***************************************************************************)
(* flush when AsyncStorage fails: loadQueue catches the error and returns   *)
(* [] (lines 118-132), saveQueue logs it and throws (lines 139-147)         *)
(***************************************************************************)
\* the promise of flush rejected
Rejected == [success |-> -2, failed |-> -2, retried |-> -2]

\* mutant of flushThrow: the exception leaves flush without the finally block
flushThrowKeepsFlag(f) ==
  /\ fRet' = [fRet EXCEPT ![f] = Rejected]
  /\ fPc' = [fPc EXCEPT ![f] = "returned"]
  /\ fBatch' = [fBatch EXCEPT ![f] = <<>>]
  /\ fIdx' = [fIdx EXCEPT ![f] = 0]
  /\ fCnt' = [fCnt EXCEPT ![f] = ZeroCounts]
  /\ dItems' = [dItems EXCEPT ![f] = <<>>]
  /\ UNCHANGED isProcessing

\* an exception leaves the try block of flush: the finally block runs (lines
\* 329-331) and the promise of flush rejects
flushThrow(f) == flushReturn(f, Rejected)

\* getItem of dequeue failed: loadQueue returns [], dequeue returns [] and
\* flush returns the zero counts
FlushLoadFailed(f) ==
  /\ fPc[f] = "dqLoad"
  /\ storageCallback(f)
  /\ storageQ' = Tail(storageQ)
  /\ flushReturn(f, ZeroCounts)
  /\ UNCHANGED <<storage, now, nextId, nextPayload, ePc, eItems, eArg, eEvicted,
                 fRefused, fDelay>>

\* loadQueue of dequeue resolved with items, and the setItem of its saveQueue
\* is going to fail: nothing is written
FlushSaveFails(f) ==
  /\ fPc[f] = "dqLoad"
  /\ storageCallback(f)
  /\ ~nothingDequeued(dItems[f])
  /\ storageQ' = Append(Tail(storageQ), f)
  /\ fPc' = [fPc EXCEPT ![f] = "dqSaveFail"]
  /\ UNCHANGED <<storage, isProcessing, now, nextId, nextPayload, ePc, eItems,
                 eArg, eEvicted, fBatch, fIdx, fCnt, dItems, fRet, fRefused,
                 fDelay>>

\* saveQueue of dequeue threw: dequeue throws, flush throws
FlushSaveFailed(f) ==
  /\ fPc[f] = "dqSaveFail"
  /\ storageCallback(f)
  /\ storageQ' = Tail(storageQ)
  /\ flushThrow(f)
  /\ UNCHANGED <<storage, now, nextId, nextPayload, ePc, eItems, eArg, eEvicted,
                 fRefused, fDelay>>

\* getItem of the re-enqueue failed: loadQueue returns [], the item is pushed
\* to that empty list and saved
ReenqueueLoadFailed(f) ==
  /\ fPc[f] = "reenq"
  /\ ePc[f] = "load"
  /\ storageCallback(f)
  /\ ~atCapacity(<<>>)
  /\ storageQ' = Append(Tail(storageQ), f)
  /\ enqueuePushAndSave(f, <<>>)
  /\ UNCHANGED <<isProcessing, nextPayload, eArg, eEvicted, fPc, fBatch, fIdx,
                 fCnt, dItems, fRet, fRefused, fDelay>>

\* the re-enqueue goes on to a saveQueue whose setItem is going to fail: the
\* save of the capacity branch, or the save of the pushed item (its id is
\* taken, nothing is written)
ReenqueueSaveFails(f) ==
  /\ fPc[f] = "reenq"
  /\ ePc[f] \in {"load", "evict"}
  /\ storageCallback(f)
  /\ storageQ' = Append(Tail(storageQ), f)
  /\ ePc' = [ePc EXCEPT ![f] = "saveFail"]
  /\ IF ePc[f] = "load" /\ atCapacity(eItems[f])
     THEN UNCHANGED <<now, nextId>>
     ELSE /\ now' \in ClockReadings
          /\ nextId' = nextId + 1
  /\ UNCHANGED <<storage, isProcessing, nextPayload, eItems, eArg, eEvicted, fPc,
                 fBatch, fIdx, fCnt, dItems, fRet, fRefused, fDelay>>

\* saveQueue of the re-enqueue threw: enqueue throws inside the catch block
\* of the loop (line 312), flush throws
ReenqueueSaveFailed(f) ==
  /\ fPc[f] = "reenq"
  /\ ePc[f] = "saveFail"
  /\ storageCallback(f)
  /\ storageQ' = Tail(storageQ)
  /\ enqueueExit(f)
  /\ flushThrow(f)
  /\ UNCHANGED <<storage, now, nextId, nextPayload, fRefused, fDelay>>

\* the storage callbacks of a failed operation
FaultCallback ==
  \/ \E f \in FlushProcs : FlushLoadFailed(f)
  \/ \E f \in FlushProcs : FlushSaveFails(f)
  \/ \E f \in FlushProcs : FlushSaveFailed(f)
  \/ \E f \in FlushProcs : ReenqueueLoadFailed(f)
  \/ \E f \in FlushProcs : ReenqueueSaveFails(f)
  \/ \E f \in FlushProcs : ReenqueueSaveFailed(f)

NextFaults ==
  \/ \E f \in FlushProcs : FlushDone(f)
  \/ ~microtaskPending /\ QueueEvent
  \/ ~microtaskPending /\ FaultCallback

(***************************************************************************)
(* dequeue(maxBatch) on its own, over every small stored queue             *)
(***************************************************************************)
\* stored queues built by enqueue calls below capacity: ids in call order,
\* any priorities, enqueue times that do not decrease
DequeueInputs ==
  UNION {{[i \in 1..n |-> QueueItem(i, "Accelerometer", i, shape[i][1], shape[i][2])] :
            shape \in {sh \in [1..n -> Priorities \X (0..MaxStamp)] :
                         \A i \in 1..(n - 1) : sh[i][2] <= sh[i + 1][2]}} :
         n \in 0..MaxLen}

\* no stand-alone dequeue call is made
InitDequeueIdle ==
  /\ dqItems = <<>>
  /\ dqMaxBatch = 1
  /\ dqOut = <<>>
  /\ dqLeft = <<>>
  /\ dqPc = "idle"

InitDequeue ==
  /\ dqItems \in DequeueInputs
  /\ dqMaxBatch \in 1..MaxBatch
  /\ dqOut = <<>>
  /\ dqLeft = <<>>
  /\ dqPc = "call"

\* dequeue(maxBatch) from loadQueue to its return, nothing else running
Dequeue ==
  /\ dqPc = "call"
  /\ IF Len(dqItems) = 0
     THEN dqOut' = <<>> /\ dqLeft' = dqItems
     ELSE /\ dqOut' = dequeueTake(dqItems, dqMaxBatch)
          /\ dqLeft' = dequeueKeep(dqItems, dqMaxBatch)
  /\ dqPc' = "done"
  /\ UNCHANGED <<dqItems, dqMaxBatch>>

(***************************************************************************)
(* Session refresh coordinator and transport retry (services/api.js)       *)
(***************************************************************************)
Requests == 1..NReq

\* refreshTokenFunc as a caller of AsyncStorage
Manual == 0

NoLocal == [stored |-> 0, newAccess |-> 0, newRefresh |-> 0]

\* the token pair in storage: pair 1 after a sign-in, nothing when signed out
InitTokens(t) ==
  /\ accessTok = t
  /\ refreshTok = t

InitAuth ==
  /\ nextTok = 2
  /\ isRefreshing = FALSE
  /\ refreshSubscribers = <<>>
  /\ rPc = [r \in Requests |-> "new"]
  /\ retryFlag = [r \in Requests |-> FALSE]
  /\ hdr = [r \in Requests |-> 0]
  /\ sends = [r \in Requests |-> 0]
  /\ resp = [r \in Requests |-> "none"]
  /\ rLocal = [r \in Requests |-> NoLocal]
  /\ refreshCalls = 0
  /\ firstOutcome = "none"
  /\ firstTok = 0
  /\ lateJoin = FALSE
  /\ notified = [r \in Requests |-> <<>>]
  /\ refreshFailures = 0
  /\ subscribedTo = [r \in Requests |-> 0]
  /\ handlerCalls = 0
  /\ mPc = "idle"
  /\ mLocal = NoLocal
  /\ mRuns = 0

\* request interceptor (lines 81-95): the stored access token, when there is
\* one, replaces the Authorization header the request came with
requestHeader(preset, stored) == IF stored # 0 THEN stored ELSE preset

\* lines 270-274: status 401, or 403 with an 'invalid token' body
isInvalidToken(class) == class = "auth"

\* mutant of shouldRefresh: the _retry mark is not consulted
shouldRefreshIgnoringRetry(class, r) == isInvalidToken(class)

\* line 277: only retry once per request
shouldRefresh(class, r) == isInvalidToken(class) /\ ~retryFlag[r]

\* line 281: a refresh is in progress, queue this request
alreadyRefreshing == isRefreshing

\* apiClient(originalRequest) for every request of `subs`, each with the
\* Authorization header `token` set by the caller
resend(subs, token, stored) ==
  /\ hdr' = [r \in Requests |->
               IF r \in subs THEN requestHeader(token, stored) ELSE hdr[r]]
  /\ sends' = [r \in Requests |-> IF r \in subs THEN sends[r] + 1 ELSE sends[r]]
  /\ resp' = [r \in Requests |-> IF r \in subs THEN "none" ELSE resp[r]]

SeqRange(q) == {q[i] : i \in 1..Len(q)}

\* refreshSubscribers.forEach(cb => cb(token)): one call per list entry
notify(subs, token) ==
  [q \in Requests |->
     notified[q] \o [i \in 1..Cardinality({k \in 1..Len(subs) : subs[k] = q}) |-> token]]

\* the token handed to onRefreshed and set on the original request
refreshedToken(r) == rLocal[r].newAccess

\* the request whose interceptor holds the flag: it set isRefreshing (line
\* 294) and has not yet cleared it
refreshOwner ==
  CHOOSE q \in Requests :
    rPc[q] \in {"getLogin", "getRefresh", "refreshing", "save1", "save2"}

\* the subscribers just called are subscribed to no attempt any more
unsubscribed(subs) ==
  [q \in Requests |-> IF q \in SeqRange(subs) THEN 0 ELSE subscribedTo[q]]

\* the application issues a request through apiClient; the requests are
\* numbered in the order they are issued.  The request interceptor starts
\* getStoredTokens: getItem('login') is issued and reads the access token
Send(r) ==
  /\ rPc[r] = "new"
  /\ \A q \in 1..(r - 1) : rPc[q] # "new"
  /\ rPc' = [rPc EXCEPT ![r] = "reqGet1"]
  /\ hdr' = [hdr EXCEPT ![r] = requestHeader(0, accessTok)]
  /\ sends' = [sends EXCEPT ![r] = 1]
  /\ storageQ' = Append(storageQ, r)
  /\ UNCHANGED <<accessTok, refreshTok, nextTok, isRefreshing, refreshSubscribers,
                 retryFlag, resp, rLocal, refreshCalls, firstOutcome, firstTok,
                 lateJoin, hvars>>

\* request interceptor: getItem('login') resolved, getItem('refreshToken')
\* issued
ReqGet1Done(r) ==
  /\ rPc[r] = "reqGet1"
  /\ storageCallback(r)
  /\ rPc' = [rPc EXCEPT ![r] = "reqGet2"]
  /\ storageQ' = Append(Tail(storageQ), r)
  /\ UNCHANGED <<accessTok, refreshTok, nextTok, isRefreshing, refreshSubscribers,
                 retryFlag, hdr, sends, resp, rLocal, refreshCalls, firstOutcome,
                 firstTok, lateJoin, hvars>>

\* request interceptor: getStoredTokens resolved, the request goes on the wire
ReqGet2Done(r) ==
  /\ rPc[r] = "reqGet2"
  /\ storageCallback(r)
  /\ rPc' = [rPc EXCEPT ![r] = "sent"]
  /\ storageQ' = Tail(storageQ)
  /\ UNCHANGED <<accessTok, refreshTok, nextTok, isRefreshing, refreshSubscribers,
                 retryFlag, hdr, sends, resp, rLocal, refreshCalls, firstOutcome,
                 firstTok, lateJoin, hvars>>

\* the server answers; on an error the response interceptor runs up to its
\* first await (lines 266-295) or rejects (lines 354-367)
Respond(r, class) ==
  /\ rPc[r] = "sent"
  /\ class = "ok" => hdr[r] # 0
  /\ resp' = [resp EXCEPT ![r] = class]
  /\ hdr' = [hdr EXCEPT ![r] = 0]
  /\ IF class = "ok"
     THEN /\ rPc' = [rPc EXCEPT ![r] = "ok"]
          /\ UNCHANGED <<retryFlag, isRefreshing, refreshSubscribers, lateJoin,
                         storageQ, subscribedTo>>
     ELSE IF shouldRefresh(class, r)
     THEN /\ retryFlag' = [retryFlag EXCEPT ![r] = TRUE]
          /\ lateJoin' = (lateJoin \/ firstOutcome # "none")
          /\ IF alreadyRefreshing
             THEN /\ refreshSubscribers' = Append(refreshSubscribers, r)
                  /\ subscribedTo' = [subscribedTo EXCEPT ![r] = refreshOwner]
                  /\ rPc' = [rPc EXCEPT ![r] = "subscribed"]
                  /\ UNCHANGED <<isRefreshing, storageQ>>
             ELSE /\ isRefreshing' = TRUE
                  /\ rPc' = [rPc EXCEPT ![r] = "getLogin"]
                  /\ storageQ' = Append(storageQ, r)
                  /\ UNCHANGED <<refreshSubscribers, subscribedTo>>
     ELSE /\ rPc' = [rPc EXCEPT ![r] = "failed"]
          /\ UNCHANGED <<retryFlag, isRefreshing, refreshSubscribers, lateJoin,
                         storageQ, subscribedTo>>
  /\ UNCHANGED <<accessTok, refreshTok, nextTok, sends, rLocal,
                 refreshCalls, firstOutcome, firstTok, notified, refreshFailures,
                 handlerCalls>>

\* getStoredTokens: getItem('login') resolved, getItem('refreshToken') issued
GetLoginDone(r) ==
  /\ rPc[r] = "getLogin"
  /\ storageCallback(r)
  /\ rLocal' = [rLocal EXCEPT ![r].stored = refreshTok]
  /\ rPc' = [rPc EXCEPT ![r] = "getRefresh"]
  /\ storageQ' = Append(Tail(storageQ), r)
  /\ UNCHANGED <<accessTok, refreshTok, nextTok, isRefreshing, refreshSubscribers,
                 retryFlag, hdr, sends, resp, refreshCalls, firstOutcome,
                 firstTok, lateJoin, hvars>>

\* getStoredTokens resolved: no refresh token (lines 297-300, up to the first
\* removeItem of clearTokens), or POST /refresh is issued (line 305)
GetRefreshDone(r) ==
  /\ rPc[r] = "getRefresh"
  /\ storageCallback(r)
  /\ IF rLocal[r].stored = 0
     THEN /\ isRefreshing' = FALSE
          /\ accessTok' = 0
          /\ firstOutcome' = IF firstOutcome = "none" THEN "noToken" ELSE firstOutcome
          /\ rPc' = [rPc EXCEPT ![r] = "abortClear1"]
          /\ storageQ' = Append(Tail(storageQ), r)
          /\ UNCHANGED refreshCalls
     ELSE /\ refreshCalls' = refreshCalls + 1
          /\ rPc' = [rPc EXCEPT ![r] = "refreshing"]
          /\ storageQ' = Tail(storageQ)
          /\ UNCHANGED <<isRefreshing, accessTok, firstOutcome>>
  /\ UNCHANGED <<refreshTok, nextTok, refreshSubscribers, retryFlag, hdr, sends,
                 resp, rLocal, firstTok, lateJoin, hvars>>

\* clearTokens of the no-token branch: second removeItem issued
AbortClear1(r) ==
  /\ rPc[r] = "abortClear1"
  /\ storageCallback(r)
  /\ refreshTok' = 0
  /\ rPc' = [rPc EXCEPT ![r] = "abortClear2"]
  /\ storageQ' = Append(Tail(storageQ), r)
  /\ UNCHANGED <<accessTok, nextTok, isRefreshing, refreshSubscribers, retryFlag,
                 hdr, sends, resp, rLocal, refreshCalls, firstOutcome, firstTok,
                 lateJoin, hvars>>

\* clearTokens resolved: the request is rejected (line 301)
AbortClear2(r) ==
  /\ rPc[r] = "abortClear2"
  /\ storageCallback(r)
  /\ rPc' = [rPc EXCEPT ![r] = "failed"]
  /\ rLocal' = [rLocal EXCEPT ![r] = NoLocal]
  /\ storageQ' = Tail(storageQ)
  /\ UNCHANGED <<accessTok, refreshTok, nextTok, isRefreshing, refreshSubscribers,
                 retryFlag, hdr, sends, resp, refreshCalls, firstOutcome,
                 firstTok, lateJoin, hvars>>

\* POST /refresh answered with a token (lines 312-322, up to the first
\* setItem of saveTokens); data.refresh may be missing from the answer
RefreshOk(r, withRefresh) ==
  /\ rPc[r] = "refreshing"
  /\ nextTok <= MaxTok + 1
  /\ rLocal' = [rLocal EXCEPT ![r].newAccess = nextTok,
                              ![r].newRefresh = IF withRefresh THEN nextTok
                                                ELSE rLocal[r].stored]
  /\ nextTok' = nextTok + 1
  /\ accessTok' = nextTok
  /\ firstOutcome' = IF firstOutcome = "none" THEN "ok" ELSE firstOutcome
  /\ firstTok' = IF firstOutcome = "none" THEN nextTok ELSE firstTok
  /\ rPc' = [rPc EXCEPT ![r] = "save1"]
  /\ storageQ' = Append(storageQ, r)
  /\ UNCHANGED <<refreshTok, isRefreshing, refreshSubscribers, retryFlag, hdr,
                 sends, resp, refreshCalls, lateJoin, hvars>>

\* saveTokens: setItem('login') resolved, setItem('refreshToken') issued
Save1(r) ==
  /\ rPc[r] = "save1"
  /\ storageCallback(r)
  /\ refreshTok' = rLocal[r].newRefresh
  /\ rPc' = [rPc EXCEPT ![r] = "save2"]
  /\ storageQ' = Append(Tail(storageQ), r)
  /\ UNCHANGED <<accessTok, nextTok, isRefreshing, refreshSubscribers, retryFlag,
                 hdr, sends, resp, rLocal, refreshCalls, firstOutcome, firstTok,
                 lateJoin, hvars>>

\* saveTokens resolved (lines 325-334): onRefreshed(newAccessToken) re-sends
\* every subscriber, the flag is cleared, the original request is re-sent
Save2(r) ==
  /\ rPc[r] = "save2"
  /\ storageCallback(r)
  /\ resend(SeqRange(refreshSubscribers) \cup {r}, refreshedToken(r), accessTok)
  /\ rPc' = [q \in Requests |->
               IF q = r \/ q \in SeqRange(refreshSubscribers) THEN "reqGet1"
               ELSE rPc[q]]
  /\ notified' = notify(refreshSubscribers, refreshedToken(r))
  /\ subscribedTo' = unsubscribed(refreshSubscribers)
  /\ refreshSubscribers' = <<>>
  /\ isRefreshing' = FALSE
  /\ rLocal' = [rLocal EXCEPT ![r] = NoLocal]
  /\ storageQ' = Tail(storageQ) \o refreshSubscribers \o <<r>>
  /\ UNCHANGED <<accessTok, refreshTok, nextTok, retryFlag, refreshCalls,
                 firstOutcome, firstTok, lateJoin, refreshFailures, handlerCalls>>

\* POST /refresh failed, or its answer had no token (lines 336-341, up to the
\* first removeItem of clearTokens)
RefreshFail(r) ==
  /\ rPc[r] = "refreshing"
  /\ isRefreshing' = FALSE
  /\ accessTok' = 0
  /\ refreshFailures' = refreshFailures + 1
  /\ firstOutcome' = IF firstOutcome = "none" THEN "fail" ELSE firstOutcome
  /\ rPc' = [rPc EXCEPT ![r] = "failClear1"]
  /\ storageQ' = Append(storageQ, r)
  /\ UNCHANGED <<refreshTok, nextTok, refreshSubscribers, retryFlag, hdr, sends,
                 resp, rLocal, refreshCalls, firstTok, lateJoin, notified, handlerCalls,
                 subscribedTo>>

\* clearTokens of the catch block: second removeItem issued
FailClear1(r) ==
  /\ rPc[r] = "failClear1"
  /\ storageCallback(r)
  /\ refreshTok' = 0
  /\ rPc' = [rPc EXCEPT ![r] = "failClear2"]
  /\ storageQ' = Append(Tail(storageQ), r)
  /\ UNCHANGED <<accessTok, nextTok, isRefreshing, refreshSubscribers, retryFlag,
                 hdr, sends, resp, rLocal, refreshCalls, firstOutcome, firstTok,
                 lateJoin, hvars>>

\* clearTokens resolved (lines 342-350): every subscriber's callback runs with
\* null, which re-sends its request with 'Bearer null'; the request is rejected
FailClear2(r) ==
  /\ rPc[r] = "failClear2"
  /\ storageCallback(r)
  /\ resend(SeqRange(refreshSubscribers), 0, accessTok)
  /\ rPc' = [q \in Requests |->
               IF q = r THEN "failed"
               ELSE IF q \in SeqRange(refreshSubscribers) THEN "reqGet1"
               ELSE rPc[q]]
  /\ notified' = notify(refreshSubscribers, 0)
  /\ subscribedTo' = unsubscribed(refreshSubscribers)
  /\ handlerCalls' = handlerCalls + 1
  /\ refreshSubscribers' = <<>>
  /\ rLocal' = [rLocal EXCEPT ![r] = NoLocal]
  /\ storageQ' = Tail(storageQ) \o refreshSubscribers
  /\ UNCHANGED <<accessTok, refreshTok, nextTok, isRefreshing, retryFlag,
                 refreshCalls, firstOutcome, firstTok, lateJoin, refreshFailures>>

NextAuth ==
  \/ \E r \in Requests : Send(r)
  \/ \E r \in Requests : ReqGet1Done(r)
  \/ \E r \in Requests : ReqGet2Done(r)
  \/ \E r \in Requests, class \in {"ok", "auth", "other"} : Respond(r, class)
  \/ \E r \in Requests : GetLoginDone(r)
  \/ \E r \in Requests : GetRefreshDone(r)
  \/ \E r \in Requests : AbortClear1(r)
  \/ \E r \in Requests : AbortClear2(r)
  \/ \E r \in Requests, withRefresh \in BOOLEAN : RefreshOk(r, withRefresh)
  \/ \E r \in Requests : Save1(r)
  \/ \E r \in Requests : Save2(r)
  \/ \E r \in Requests : RefreshFail(r)
  \/ \E r \in Requests : FailClear1(r)
  \/ \E r \in Requests : FailClear2(r)

(***************************************************************************)
(* Scheduled manual refresh (config.js refreshTokenFunc)                   *)
(***************************************************************************)
\* the foreground-service task fires: get('refreshToken') is issued
ManualStart ==
  /\ mPc = "idle"
  /\ mRuns < MaxManual
  /\ mRuns' = mRuns + 1
  /\ mLocal' = [NoLocal EXCEPT !.stored = refreshTok]
  /\ mPc' = "get"
  /\ storageQ' = Append(storageQ, Manual)
  /\ UNCHANGED avars

\* no refresh token: return; else POST /refresh is issued (line 275)
ManualAfterGet ==
  /\ mPc = "get"
  /\ storageCallback(Manual)
  /\ storageQ' = Tail(storageQ)
  /\ IF mLocal.stored = 0
     THEN mPc' = "idle" /\ mLocal' = NoLocal
     ELSE mPc' = "refreshing" /\ UNCHANGED mLocal
  /\ UNCHANGED <<avars, mRuns>>

\* the answer carries a token: setAuthFromLogin, first setItem of saveTokens
ManualRefreshOk ==
  /\ mPc = "refreshing"
  /\ nextTok <= MaxTok + 1
  /\ mLocal' = [mLocal EXCEPT !.newAccess = nextTok, !.newRefresh = nextTok]
  /\ nextTok' = nextTok + 1
  /\ accessTok' = nextTok
  /\ mPc' = "save1"
  /\ storageQ' = Append(storageQ, Manual)
  /\ UNCHANGED <<refreshTok, isRefreshing, refreshSubscribers, rPc, retryFlag,
                 hdr, sends, resp, rLocal, refreshCalls, firstOutcome, firstTok,
                 lateJoin, mRuns, hvars>>

\* the answer carries no token: delkey('login') (lines 284-288)
ManualRefreshNoToken ==
  /\ mPc = "refreshing"
  /\ accessTok' = 0
  /\ mPc' = "idle"
  /\ mLocal' = NoLocal
  /\ UNCHANGED <<refreshTok, nextTok, isRefreshing, refreshSubscribers, rPc,
                 retryFlag, hdr, sends, resp, rLocal, refreshCalls, firstOutcome,
                 firstTok, lateJoin, mRuns, hvars, storageQ>>

\* the call failed, or setAuthFromLogin threw on an answer without a refresh
\* token: the catch block only logs (lines 290-293)
ManualRefreshFail ==
  /\ mPc = "refreshing"
  /\ mPc' = "idle"
  /\ mLocal' = NoLocal
  /\ UNCHANGED <<avars, mRuns, storageQ>>

\* saveTokens: second setItem issued
ManualSave1 ==
  /\ mPc = "save1"
  /\ storageCallback(Manual)
  /\ refreshTok' = mLocal.newRefresh
  /\ mPc' = "save2"
  /\ storageQ' = Append(Tail(storageQ), Manual)
  /\ UNCHANGED <<accessTok, nextTok, isRefreshing, refreshSubscribers, rPc,
                 retryFlag, hdr, sends, resp, rLocal, refreshCalls, firstOutcome,
                 firstTok, lateJoin, mLocal, mRuns, hvars>>

\* saveTokens resolved: refreshTokenFunc returns
ManualSave2 ==
  /\ mPc = "save2"
  /\ storageCallback(Manual)
  /\ storageQ' = Tail(storageQ)
  /\ mPc' = "idle"
  /\ mLocal' = NoLocal
  /\ UNCHANGED <<avars, mRuns>>

NextManual ==
  \/ ManualStart
  \/ ManualAfterGet
  \/ ManualRefreshOk
  \/ ManualRefreshNoToken
  \/ ManualRefreshFail
  \/ ManualSave1
  \/ ManualSave2

(***************************************************************************)
(* Accelerometer chunk builder (services/imuSync.js)                       *)
(***************************************************************************)
\* JavaScript null
Null == -1

\* the constructor of AccelerometerChunkBuilder:
\* Math.floor((sampleRateHz * this.chunkDurationMs) / 1000), where
\* this.chunkDurationMs was just set to 5000
builderMaxSamples(rate) == (rate * chunkDurationMs) \div 1000

maxSamples == builderMaxSamples(sampleRateHz)

\* new AccelSample(x, y, z, tOffsetMs, ts); x stands for the three readings
AccelSample(x, tOffsetMs, ts) == [x |-> x, tOffsetMs |-> tOffsetMs, ts |-> ts]

\* the return value null of addSample, flushChunk and forceFlush
NoChunk == [sampleRateHz |-> 0, startedAt |-> Null, samples |-> <<>>]

\* the entry of chunk.samples built from a buffered sample: ts when the
\* sample has one, tOffsetMs otherwise
chunkSample(sample) ==
  IF sample.ts # Null
  THEN [x |-> sample.x, tOffsetMs |-> Null, ts |-> sample.ts]
  ELSE [x |-> sample.x, tOffsetMs |-> sample.tOffsetMs, ts |-> Null]

buildChunk(buffer, started) ==
  IF Len(buffer) = 0
  THEN NoChunk
  ELSE [sampleRateHz |-> sampleRateHz,
        startedAt |-> started,
        samples |-> [i \in 1..Len(buffer) |-> chunkSample(buffer[i])]]

\* mutant of bufferFull: the chunk is sealed one sample early
bufferFullOneEarly(buffer) == Len(buffer) >= maxSamples - 1

\* mutant of bufferFull: the chunk is sealed one sample late
bufferFullOneLate(buffer) == Len(buffer) > maxSamples

\* the test of addSample that seals the chunk (line 63)
bufferFull(buffer) == Len(buffer) >= maxSamples

\* the offset recorded for a sample (lines 52-58)
sampleOffset(buffer, started, tOffsetMs, ts) ==
  IF tOffsetMs # Null THEN tOffsetMs
  ELSE IF ts # Null THEN ts - started
  ELSE (Len(buffer) * 1000) \div sampleRateHz

InitChunk ==
  /\ samples = <<>>
  /\ startedAt = Null
  /\ added = 0
  /\ lastCall = "none"
  /\ lastChunk = NoChunk
  /\ streak = 0
  /\ sealed = 0
  /\ emitted = <<>>

\* the readings x of a list of samples
readings(list) == [i \in 1..Len(list) |-> list[i].x]

\* mutant of flushBuffer: the chunk is built and the buffer is left as it is
flushBufferKeepsSamples(buffer, started) ==
  /\ lastChunk' = buildChunk(buffer, started)
  /\ samples' = buffer
  /\ startedAt' = started

\* mutant of flushBuffer: the buffer is emptied but startedAt is kept
flushBufferKeepsStartedAt(buffer, started) ==
  /\ lastChunk' = buildChunk(buffer, started)
  /\ samples' = <<>>
  /\ startedAt' = started

\* flushChunk and forceFlush: build the chunk and, when there is one, reset
flushBuffer(buffer, started) ==
  /\ lastChunk' = buildChunk(buffer, started)
  /\ IF Len(buffer) = 0
     THEN samples' = buffer /\ startedAt' = started
     ELSE samples' = <<>> /\ startedAt' = Null

\* addSample(x, y, z, tOffsetMs, ts); clock is the reading of new Date()
AddSample(tOffsetMs, ts, clock) ==
  /\ added < MaxCalls
  /\ added' = added + 1
  /\ lastCall' = "addSample"
  /\ LET started == IF startedAt # Null THEN startedAt
                     ELSE IF ts # Null THEN ts ELSE clock
         sample == AccelSample(added + 1, sampleOffset(samples, started, tOffsetMs, ts), ts)
         buffer == Append(samples, sample)
     IN IF bufferFull(buffer)
        THEN flushBuffer(buffer, started)
        ELSE /\ samples' = buffer
             /\ startedAt' = started
             /\ lastChunk' = NoChunk
  /\ streak' = streak + 1
  /\ sealed' = IF lastChunk' # NoChunk THEN sealed + 1 ELSE sealed
  /\ emitted' = emitted \o readings(lastChunk'.samples)

\* forceFlush()
ForceFlush ==
  /\ lastCall' = "forceFlush"
  /\ flushBuffer(samples, startedAt)
  /\ streak' = 0
  /\ sealed' = 0
  /\ emitted' = emitted \o readings(lastChunk'.samples)
  /\ UNCHANGED added

\* the readings new Date() can give; addSample reads the clock only for the
\* first sample of a window that comes without ts
\* the readings of the sample clock, in milliseconds
SampleTimes == {chunkDurationMs * k : k \in 1..MaxTs}

dateReadings(ts) ==
  IF startedAt = Null /\ ts = Null THEN SampleTimes ELSE {chunkDurationMs}

NextChunk ==
  \/ \E tOffsetMs \in {Null} \cup (0..MaxOffset), ts \in {Null} \cup SampleTimes :
        \E clock \in dateReadings(ts) : AddSample(tOffsetMs, ts, clock)
  \/ ForceFlush

(***************************************************************************)
(* new IMUSyncManager(options) (services/imuSync.js)                       *)
(***************************************************************************)
\* no manager is constructed
InitManagerIdle ==
  /\ optSampleRateHz = 0
  /\ optChunkDurationMs = 0
  /\ mgrSampleRateHz = 0
  /\ mgrChunkDurationMs = 0
  /\ mgrMaxSamples = 0
  /\ mgrPc = "idle"

\* the options of useSensorStream / createIMUSyncManager: any rate up to
\* MaxRateHz or the 50 Hz of config.js, any whole number of seconds
InitManagerOptions ==
  /\ optSampleRateHz \in (0..MaxRateHz) \cup {50}
  /\ optChunkDurationMs \in {1000 * k : k \in 0..MaxDurationS}
  /\ mgrSampleRateHz = 0
  /\ mgrChunkDurationMs = 0
  /\ mgrMaxSamples = 0
  /\ mgrPc = "new"

\* options.x || d
orDefault(option, default) == IF option # 0 THEN option ELSE default

\* the constructor of IMUSyncManager, with the constructor of its chunk
\* builder (which is given the rate and nothing else)
ConstructManager ==
  /\ mgrPc = "new"
  /\ mgrSampleRateHz' = orDefault(optSampleRateHz, 50)
  /\ mgrChunkDurationMs' = orDefault(optChunkDurationMs, 5000)
  /\ mgrMaxSamples' = builderMaxSamples(orDefault(optSampleRateHz, 50))
  /\ mgrPc' = "built"
  /\ UNCHANGED <<optSampleRateHz, optChunkDurationMs>>

(***************************************************************************)
(* Sensor stream: IMUSyncManager (services/imuSync.js) and the             *)
(* AccelerometerChunk listener of useSensorStream (hooks/useSensorStream.js)*)
(***************************************************************************)
Chunks == 1..MaxChunks

\* no stream is set up
InitStreamIdle ==
  /\ nativeSource = FALSE
  /\ autoSync = TRUE
  /\ isStreaming = FALSE
  /\ nativeBuffered = FALSE
  /\ chunkFate = [k \in Chunks |-> "none"]
  /\ chunksSealed = 0

\* useSensorStream with or without the native module, autoSync on or off,
\* the option offlineQueue left at its default (true)
InitStream ==
  /\ nativeSource \in BOOLEAN
  /\ autoSync \in BOOLEAN
  /\ isStreaming = FALSE
  /\ nativeBuffered = FALSE
  /\ chunkFate = [k \in Chunks |-> "none"]
  /\ chunksSealed = 0

\* the first await of the code that receives a sealed chunk, handleChunk of
\* the manager or the listener of the hook: the transmission when autoSync,
\* else the enqueue
receiveChunk == IF autoSync THEN "sending" ELSE "enqueueing"

\* the catch block around the transmission: handleChunk enqueues the chunk,
\* the listener of the hook logs the error and sets the error state
transmissionFailed == IF nativeSource THEN "dropped" ELSE "enqueueing"

chunkSealed ==
  /\ chunksSealed' = chunksSealed + 1
  /\ chunkFate' = [chunkFate EXCEPT ![chunksSealed + 1] = receiveChunk]

\* startStreaming of the manager, startAccelerometer of the native module
StartStreaming ==
  /\ ~isStreaming
  /\ isStreaming' = TRUE
  /\ UNCHANGED <<nativeSource, autoSync, nativeBuffered, chunkFate, chunksSealed,
                 cvars>>

\* IMUSyncManager.addSample(x, y, z) while streaming (a call while not
\* streaming is ignored)
ManagerAddSample ==
  /\ ~nativeSource
  /\ isStreaming
  /\ chunksSealed < MaxChunks
  /\ \E clock \in dateReadings(Null) : AddSample(Null, Null, clock)
  /\ IF lastChunk' # NoChunk THEN chunkSealed ELSE UNCHANGED <<chunkFate, chunksSealed>>
  /\ UNCHANGED <<nativeSource, autoSync, isStreaming, nativeBuffered>>

\* IMUSyncManager.stopStreaming: forceFlush and handleChunk(finalChunk)
StopStreaming ==
  /\ ~nativeSource
  /\ isStreaming
  /\ chunksSealed < MaxChunks
  /\ isStreaming' = FALSE
  /\ ForceFlush
  /\ IF lastChunk' # NoChunk THEN chunkSealed ELSE UNCHANGED <<chunkFate, chunksSealed>>
  /\ UNCHANGED <<nativeSource, autoSync, nativeBuffered>>

\* onSensorChanged of the native module: the sample is buffered, and the
\* chunk is sent to the listener when it is full or old enough
NativeSample ==
  /\ nativeSource
  /\ isStreaming
  /\ chunksSealed < MaxChunks
  /\ \/ nativeBuffered' = TRUE /\ UNCHANGED <<chunkFate, chunksSealed>>
     \/ nativeBuffered' = FALSE /\ chunkSealed
  /\ UNCHANGED <<nativeSource, autoSync, isStreaming, cvars>>

\* stopAccelerometer of the native module: the remaining samples are sent as
\* the final chunk
NativeStop ==
  /\ nativeSource
  /\ isStreaming
  /\ chunksSealed < MaxChunks
  /\ isStreaming' = FALSE
  /\ nativeBuffered' = FALSE
  /\ IF nativeBuffered THEN chunkSealed ELSE UNCHANGED <<chunkFate, chunksSealed>>
  /\ UNCHANGED <<nativeSource, autoSync, cvars>>

\* the server acknowledged the chunk
ChunkSyncOk(k) ==
  /\ chunkFate[k] = "sending"
  /\ chunkFate' = [chunkFate EXCEPT ![k] = "acked"]
  /\ UNCHANGED <<nativeSource, autoSync, isStreaming, nativeBuffered, chunksSealed,
                 cvars>>

\* the transmission was rejected
ChunkSyncFail(k) ==
  /\ chunkFate[k] = "sending"
  /\ chunkFate' = [chunkFate EXCEPT ![k] = transmissionFailed]
  /\ UNCHANGED <<nativeSource, autoSync, isStreaming, nativeBuffered, chunksSealed,
                 cvars>>

\* offlineQueue.enqueue('Accelerometer', chunk, 'normal') returned
ChunkEnqueued(k) ==
  /\ chunkFate[k] = "enqueueing"
  /\ chunkFate' = [chunkFate EXCEPT ![k] = "stored"]
  /\ UNCHANGED <<nativeSource, autoSync, isStreaming, nativeBuffered, chunksSealed,
                 cvars>>

\* the answers and callbacks a sealed chunk waits for
ChunkHandled ==
  \E k \in Chunks : ChunkSyncOk(k) \/ ChunkSyncFail(k) \/ ChunkEnqueued(k)

NextStream ==
  \/ StartStreaming
  \/ ManagerAddSample
  \/ StopStreaming
  \/ NativeSample
  \/ NativeStop
  \/ \E k \in Chunks : ChunkSyncOk(k)
  \/ \E k \in Chunks : ChunkSyncFail(k)
  \/ \E k \in Chunks : ChunkEnqueued(k)

(***************************************************************************)
(* syncAll and syncRecordsToEndpoint (services/healthSync.js)              *)
(***************************************************************************)
\* RECORD_TYPES, by position
Types == 1..NTypes

\* ENDPOINT_CONFIG: the types of config.ingest.recordTypes set to true go to
\* /ingest (here the odd ones), the others to /sync
useIngest(type) == type % 2 = 1

NoResults == [ingest |-> "none", sync |-> "none"]

\* what the onProgress callback may do: return, or throw on some of the calls
Callbacks == {"returns", "throwsOnType", "throwsOnCompleted", "throwsAlways"}

InitSyncIdle ==
  /\ syncPc = "idle"
  /\ skipPermissionCheck = FALSE
  /\ onProgress = "none"
  /\ parallelMode = FALSE
  /\ typeIdx = 0
  /\ recordCounts = [t \in Types |-> 0]
  /\ totalRecords = 0
  /\ syncedRecords = 0
  /\ results = NoResults
  /\ progress = <<>>
  /\ events = <<>>
  /\ syncResult = Null
  /\ readFailed = {}
  /\ typeResults = [t \in Types |-> NoResults]

\* syncAll(options) is called, with either setting of config.migration
InitSyncCall ==
  /\ syncPc = "call"
  /\ skipPermissionCheck \in BOOLEAN
  /\ onProgress \in {"none"} \cup Callbacks
  /\ parallelMode \in BOOLEAN
  /\ typeIdx = 0
  /\ recordCounts = [t \in Types |-> 0]
  /\ totalRecords = 0
  /\ syncedRecords = 0
  /\ results = NoResults
  /\ progress = <<>>
  /\ events = <<>>
  /\ syncResult = Null
  /\ readFailed = {}
  /\ typeResults = [t \in Types |-> NoResults]

\* SimpleEventEmitter.emit: the listeners are called and what they throw is
\* caught; the log keeps the event and the keys of its payload
emit(log, event, payload) == Append(log, [event |-> event, payload |-> payload])

SyncCompleted(total, requested) ==
  [keys |-> {"timestamp", "total", "requested"}, total |-> total,
   requested |-> requested]

SyncError == [keys |-> {"error"}, total |-> Null, requested |-> Null]

\* the argument of onProgress; currentType is 0 when the key is absent
Progress(current, total, phase, currentType) ==
  [current |-> current, total |-> total, phase |-> phase,
   currentType |-> currentType]

\* the callback throws on this call
callbackThrows(p) ==
  \/ onProgress = "throwsAlways"
  \/ onProgress = "throwsOnType" /\ p.currentType # 0
  \/ onProgress = "throwsOnCompleted" /\ p.phase = "completed"

\* if (onProgress) onProgress(p)
callOnProgress(log, p) == IF onProgress = "none" THEN log ELSE Append(log, p)

progressThrows(p) == onProgress # "none" /\ callbackThrows(p)

\* mutant of countsAsSynced: the records are counted whatever the answer
countsAsSyncedAlways(res) == TRUE

\* lines 358-362: the records of the type count when an endpoint took them
countsAsSynced(res) ==
  IF res.ingest # "none" /\ res.ingest # "error"
    THEN TRUE
    ELSE res.sync # "none" /\ res.sync # "error"

\* mutant of typeProgress: the progress is reported before the type is counted
typeProgressBeforeSubmit(synced, type) ==
  Progress(synced - recordCounts[type], totalRecords, "syncing", type)

\* lines 370-378: the progress update after a type
typeProgress(synced, type) == Progress(synced, totalRecords, "syncing", type)

\* the first type from `from` on that has records, 0 when there is none
RECURSIVE nextWithRecords(_, _)
nextWithRecords(counts, from) ==
  IF from > NTypes THEN 0
  ELSE IF counts[from] > 0 THEN from
  ELSE nextWithRecords(counts, from + 1)

\* the outer catch block: SYNC_ERROR and rethrow
syncThrows(log) ==
  /\ events' = emit(log, "SYNC_ERROR", SyncError)
  /\ syncPc' = "thrown"

\* the first request of syncRecordsToEndpoint(type, records, parallelMode)
firstEndpoint(type) == IF useIngest(type) \/ parallelMode THEN "ingest" ELSE "sync"

\* the second pass from type `from` on: the next type with records is
\* submitted (tr: the results so far); after the last one the completion event is emitted, the
\* 'completed' progress is reported and the result is returned
secondPass(from, counts, total, synced, log, tr) ==
  LET type == nextWithRecords(counts, from)
      done == Progress(synced, total, "completed", 0)
  IN IF type # 0
       THEN /\ typeIdx' = type
            /\ syncPc' = firstEndpoint(type)
            /\ results' = IF firstEndpoint(type) = "ingest"
                            THEN [ingest |-> "sent", sync |-> "none"]
                            ELSE [ingest |-> "none", sync |-> "sent"]
            /\ typeResults' = [tr EXCEPT ![type] = results']
            /\ progress' = log
            /\ UNCHANGED <<events, syncResult>>
       ELSE /\ progress' = callOnProgress(log, done)
            /\ results' = tr[typeIdx]
            /\ typeResults' = tr
            /\ UNCHANGED typeIdx
            /\ IF progressThrows(done)
                 THEN /\ syncThrows(emit(events, "SYNC_COMPLETED",
                                         SyncCompleted(synced, total)))
                      /\ UNCHANGED syncResult
                 ELSE /\ events' = emit(events, "SYNC_COMPLETED",
                                        SyncCompleted(synced, total))
                      /\ syncPc' = "returned"
                      /\ syncResult' = SyncCompleted(synced, total)

\* syncAll is entered: await initialize()
SyncAll ==
  /\ syncPc = "call"
  /\ syncPc' = "initialize"
  /\ UNCHANGED <<skipPermissionCheck, onProgress, parallelMode, typeIdx,
                 recordCounts, totalRecords, syncedRecords, results, progress,
                 events, syncResult, readFailed, typeResults>>

\* initialize() resolved or rejected
InitializeDone(ok) ==
  /\ syncPc = "initialize"
  /\ IF ~ok
       THEN syncThrows(events) /\ UNCHANGED typeIdx
       ELSE /\ syncPc' = IF skipPermissionCheck THEN "read" ELSE "permissions"
            /\ typeIdx' = IF skipPermissionCheck THEN 1 ELSE typeIdx
            /\ UNCHANGED events
  /\ UNCHANGED <<skipPermissionCheck, onProgress, parallelMode, recordCounts,
                 totalRecords, syncedRecords, results, progress, syncResult,
                 readFailed, typeResults>>

\* checkPermissions(allPermissions) resolved
PermissionsChecked(allGranted) ==
  /\ syncPc = "permissions"
  /\ IF ~allGranted
       THEN syncThrows(events) /\ UNCHANGED typeIdx
       ELSE syncPc' = "read" /\ typeIdx' = 1 /\ UNCHANGED events
  /\ UNCHANGED <<skipPermissionCheck, onProgress, parallelMode, recordCounts,
                 totalRecords, syncedRecords, results, progress, syncResult,
                 readFailed, typeResults>>

\* readRecords(type) of the first pass resolved with n records, or rejected
\* (n = Null); after the last type the initial progress is reported and the
\* second pass starts
ReadDone(n) ==
  LET count == IF n = Null THEN 0 ELSE n
      counts == [recordCounts EXCEPT ![typeIdx] = count]
      total == totalRecords + count
      initial == Progress(0, total, "syncing", 0)
  IN /\ syncPc = "read"
     /\ recordCounts' = counts
     /\ totalRecords' = total
     /\ readFailed' = IF n = Null THEN readFailed \cup {typeIdx} ELSE readFailed
     /\ IF typeIdx < NTypes
          THEN /\ typeIdx' = typeIdx + 1
               /\ UNCHANGED <<syncPc, results, progress, events, syncResult,
                              typeResults>>
          ELSE IF progressThrows(initial)
            THEN /\ progress' = callOnProgress(progress, initial)
                 /\ syncThrows(events)
                 /\ UNCHANGED <<typeIdx, results, syncResult, typeResults>>
            ELSE secondPass(1, counts, total, 0, callOnProgress(progress, initial),
                            typeResults)
     /\ UNCHANGED <<skipPermissionCheck, onProgress, parallelMode, syncedRecords>>

\* mutant of submissionAnswered: the loop goes on while the request is in
\* flight
submissionNotAwaited(tr, type, res) == tr

\* await syncRecordsToEndpoint(...): the requests of the type are answered
\* when the loop goes on
submissionAnswered(tr, type, res) == [tr EXCEPT ![type] = res]

\* syncRecordsToEndpoint returned: the type is counted, the progress is
\* reported (what the callback throws is caught by the catch block of the
\* loop) and the loop goes on
typeDone(res) ==
  LET synced == IF countsAsSynced(res)
                  THEN syncedRecords + recordCounts[typeIdx]
                  ELSE syncedRecords
  IN /\ syncedRecords' = synced
     /\ secondPass(typeIdx + 1, recordCounts, totalRecords, synced,
                   callOnProgress(progress, typeProgress(synced, typeIdx)),
                   submissionAnswered(typeResults, typeIdx, res))

\* ingestRecords(recordType, records) resolved or rejected; then the request
\* to /sync, if there is one
IngestDone(ok) ==
  LET res == [results EXCEPT !.ingest = IF ok THEN "ok" ELSE "error"]
  IN /\ syncPc = "ingest"
     /\ IF ~useIngest(typeIdx) \/ parallelMode
          THEN /\ syncPc' = "sync"
               /\ results' = [res EXCEPT !.sync = "sent"]
               /\ typeResults' = [typeResults EXCEPT ![typeIdx] = results']
               /\ UNCHANGED <<typeIdx, syncedRecords, progress, events, syncResult>>
          ELSE typeDone(res)
     /\ UNCHANGED <<skipPermissionCheck, onProgress, parallelMode, recordCounts,
                    totalRecords, readFailed>>

\* apiClient.post(`/sync/${recordType}`) resolved or rejected
SyncDone(ok) ==
  LET res == [results EXCEPT !.sync = IF ok THEN "ok" ELSE "error"]
  IN /\ syncPc = "sync"
     /\ typeDone(res)
     /\ UNCHANGED <<skipPermissionCheck, onProgress, parallelMode, recordCounts,
                    totalRecords, readFailed>>

NextSync ==
  \/ SyncAll
  \/ \E ok \in BOOLEAN : InitializeDone(ok)
  \/ \E allGranted \in BOOLEAN : PermissionsChecked(allGranted)
  \/ \E n \in {Null} \cup (0..MaxRecords) : ReadDone(n)
  \/ \E ok \in BOOLEAN : IngestDone(ok)
  \/ \E ok \in BOOLEAN : SyncDone(ok)

(***************************************************************************)
(* ApiError (utils/errorHandler.js)                                        *)
(***************************************************************************)
\* status codes of the responses
Statuses == {400, 401, 403, 404, 422, 500, 503}

\* error.code of axios
Codes == {"ECONNABORTED", "ERR_NETWORK", "none"}

InitErrorIdle ==
  /\ errStatus = Null
  /\ errInvalidTokenBody = FALSE
  /\ errRequest = FALSE
  /\ errCode = "none"
  /\ errType = "none"

\* every error object a failed call can hand to new ApiError(error)
InitError ==
  /\ errStatus \in {Null} \cup Statuses
  /\ errInvalidTokenBody \in (IF errStatus = Null THEN {FALSE} ELSE BOOLEAN)
  /\ errRequest \in BOOLEAN
  /\ errCode \in Codes
  /\ errType = "none"

\* ApiError.classifyError(error)
classifyError(status, request, code) ==
  IF status = Null /\ request THEN "NETWORK"
  ELSE IF status = 401 \/ status = 403 THEN "AUTH"
  ELSE IF status # Null /\ status >= 500 THEN "SERVER"
  ELSE IF status # Null /\ status >= 400 THEN "VALIDATION"
  ELSE IF code = "ECONNABORTED" THEN "TIMEOUT"
  ELSE "UNKNOWN"

\* the response interceptor of api.js, lines 270-274: the errors it answers
\* with a token refresh
invalidTokenError(status, invalidTokenBody) ==
  status = 401 \/ (status = 403 /\ invalidTokenBody)

\* new ApiError(error): this.type = this.classifyError(originalError)
ClassifyError ==
  /\ errType = "none"
  /\ errType' = classifyError(errStatus, errRequest, errCode)
  /\ UNCHANGED <<errStatus, errInvalidTokenBody, errRequest, errCode>>

(***************************************************************************)
(* startAutoProcessing / stopAutoProcessing (utils/ingestQueue.js)         *)
(***************************************************************************)
\* timer callbacks that can be running at the same time
Ticks == {"t1", "t2"}

InitTimer ==
  /\ interval = "none"
  /\ tickPc = [k \in Ticks |-> "idle"]
  /\ pendingCount = [k \in Ticks |-> 0]
  /\ tickFrame = [k \in Ticks |-> "none"]

\* mutant of timerFires: clearInterval leaves the timer running
timerFiresWhenCleared == interval # "none"

\* setInterval calls back until clearInterval(interval)
timerFires == interval = "set"

\* the frame a new timer callback runs in
freeTick == IF tickPc["t1"] = "idle" THEN "t1" ELSE "t2"

\* startAutoProcessing(intervalMs): setInterval, the handle is returned
StartAutoProcessing ==
  /\ interval = "none"
  /\ interval' = "set"
  /\ UNCHANGED <<tickPc, pendingCount, tickFrame, qvars, storageQ>>

\* stopAutoProcessing(interval) with the handle startAutoProcessing returned
StopAutoProcessing ==
  /\ interval = "set"
  /\ interval' = "cleared"
  /\ UNCHANGED <<tickPc, pendingCount, tickFrame, qvars, storageQ>>

\* the timer fires: the callback calls getPendingCount, which loads the queue
Tick(k) ==
  /\ timerFires
  /\ k = freeTick
  /\ tickPc[k] = "idle"
  /\ tickPc' = [tickPc EXCEPT ![k] = "count"]
  /\ pendingCount' = [pendingCount EXCEPT ![k] = Len(storage)]
  /\ storageQ' = Append(storageQ, k)
  /\ UNCHANGED <<interval, tickFrame, qvars>>

\* getPendingCount resolved: flush is called if something is pending
TickCounted(k) ==
  /\ tickPc[k] = "count"
  /\ storageCallback(k)
  /\ storageQ' = Tail(storageQ)
  /\ IF pendingCount[k] > 0
       THEN tickPc' = [tickPc EXCEPT ![k] = "call"] /\ UNCHANGED pendingCount
       ELSE /\ tickPc' = [tickPc EXCEPT ![k] = "idle"]
            /\ pendingCount' = [pendingCount EXCEPT ![k] = 0]
  /\ UNCHANGED <<interval, tickFrame, qvars>>

\* await this.flush() of the timer callback
TickFlush(k) ==
  /\ tickPc[k] = "call"
  /\ \E f \in FlushProcs :
       /\ Flush(f)
       /\ tickFrame' = [tickFrame EXCEPT ![k] = f]
  /\ tickPc' = [tickPc EXCEPT ![k] = "flush"]
  /\ UNCHANGED <<interval, pendingCount>>

\* a flush call returns to its caller; a timer callback that awaited it ends
TimerFlushDone(f) ==
  /\ FlushDone(f)
  /\ tickPc' = [k \in Ticks |-> IF tickFrame[k] = f THEN "idle" ELSE tickPc[k]]
  /\ pendingCount' = [k \in Ticks |-> IF tickFrame[k] = f THEN 0 ELSE pendingCount[k]]
  /\ tickFrame' = [k \in Ticks |-> IF tickFrame[k] = f THEN "none" ELSE tickFrame[k]]
  /\ UNCHANGED interval

\* the continuation of a timer callback that is about to call flush
tickCallPending == \E k \in Ticks : tickPc[k] = "call"

\* what the queue does when flush is left to the timer: the application
\* enqueues, and the storage, network and backoff callbacks arrive
TimerQueueEvent ==
  \/ \E c \in EnqProcs, priority \in Priorities : Enqueue(c, priority)
  \/ \E c \in Callers : EnqueueAfterLoad(c)
  \/ \E c \in Callers : EnqueueAfterEvict(c)
  \/ \E c \in EnqProcs : EnqueueReturn(c)
  \/ \E f \in FlushProcs : FlushAfterLoad(f)
  \/ \E f \in FlushProcs : FlushAfterSave(f)
  \/ \E f \in FlushProcs : SendOk(f)
  \/ \E f \in FlushProcs : SendFail(f)
  \/ \E f \in FlushProcs : ReenqueueReturn(f)
  \/ \E f \in FlushProcs : BackoffDone(f)

NextTimer ==
  \/ \E f \in FlushProcs : TimerFlushDone(f)
  \/ \E k \in Ticks : TickFlush(k)
  \/ /\ ~microtaskPending
     /\ ~tickCallPending
     /\ \/ TimerQueueEvent /\ UNCHANGED tvars
        \/ StartAutoProcessing
        \/ StopAutoProcessing
        \/ \E k \in Ticks : Tick(k)
        \/ \E k \in Ticks : TickCounted(k)

(***************************************************************************)
(* sync of the legacy App.js (config.js 295-435): one type of the set      *)
(* SleepSession, Speed, HeartRate                                          *)
(***************************************************************************)
LegacyRecords == 1..MaxLegacyRecords

InitLegacy ==
  /\ legacyRecords = Null
  /\ legacyPc = [j \in LegacyRecords |-> "none"]
  /\ numRecordsSynced = 0

\* readRecords of the type returned n records; the for loop over them sets
\* one timer per record, record j at j * 3000 ms (j from 0), and goes on
LegacyReadRecords(n) ==
  /\ legacyRecords = Null
  /\ legacyRecords' = n
  /\ legacyPc' = [j \in LegacyRecords |-> IF j <= n THEN "timer" ELSE "none"]
  /\ UNCHANGED numRecordsSynced

\* the timers fire in the order of their delays
timerDue(j) ==
  /\ legacyPc[j] = "timer"
  /\ IF j = 1 THEN TRUE ELSE legacyPc[j - 1] # "timer"

\* the timer of record j fires: the callback calls readRecord
LegacyTimer(j) ==
  /\ timerDue(j)
  /\ legacyPc' = [legacyPc EXCEPT ![j] = "read"]
  /\ UNCHANGED <<legacyRecords, numRecordsSynced>>

\* readRecord resolved and axios.post is called, or it rejected and the
\* catch block logs it
LegacyReadDone(j, ok) ==
  /\ legacyPc[j] = "read"
  /\ IF ok
       THEN legacyPc' = [legacyPc EXCEPT ![j] = "post"] /\ UNCHANGED numRecordsSynced
       ELSE /\ legacyPc' = [legacyPc EXCEPT ![j] = "done"]
            /\ numRecordsSynced' = numRecordsSynced + 1
  /\ UNCHANGED legacyRecords

\* axios.post of the record resolved or rejected
LegacyPostDone(j) ==
  /\ legacyPc[j] = "post"
  /\ legacyPc' = [legacyPc EXCEPT ![j] = "done"]
  /\ numRecordsSynced' = numRecordsSynced + 1
  /\ UNCHANGED legacyRecords

NextLegacy ==
  \/ \E n \in 0..MaxLegacyRecords : LegacyReadRecords(n)
  \/ \E j \in LegacyRecords : LegacyTimer(j)
  \/ \E j \in LegacyRecords, ok \in BOOLEAN : LegacyReadDone(j, ok)
  \/ \E j \in LegacyRecords : LegacyPostDone(j)

(***************************************************************************)
(* Failure logging: sanitizeHeaders and sanitizeData of ApiError           *)
(* (utils/errorHandler.js) and the log of the response interceptor         *)
(* (services/api.js 354-365)                                               *)
(***************************************************************************)
\* keys of the logged objects
Keys == {"token", "access_token", "password", "detail"}

\* values of the fields
Values == {"a", "b"}

REDACTED == "[REDACTED]"

\* sensitiveFields of sanitizeData
sensitiveFields == {"password", "token", "refresh", "secret", "key"}

\* the words of sensitiveFields the lower-cased key includes
includedFields(key) ==
  CASE key = "token" -> {"token"}
    [] key = "access_token" -> {"token"}
    [] key = "password" -> {"password"}
    [] OTHER -> {}

\* sensitiveFields.some(field => key.toLowerCase().includes(field))
isSensitiveKey(key) == includedFields(key) \cap sensitiveFields # {}

\* the paths of the fields: a key of the root object, or a key of an object
\* nested under a key of the root
Paths == {<<k>> : k \in Keys} \cup {<<k, l>> : k \in Keys, l \in Keys}

Fields == [path : Paths, value : Values]

\* an object: no key twice, and a key holds a value or an object, not both
isObject(fields) ==
  \A f \in fields, g \in fields :
    /\ f.path = g.path => f = g
    /\ Len(f.path) < Len(g.path) => f.path[1] # g.path[1]

\* the response bodies of the failed calls: objects of up to two fields
Bodies ==
  {fields \in {{}} \cup {{f} : f \in Fields} \cup {{f, g} : f \in Fields, g \in Fields} :
     isObject(fields)}

InitLog ==
  /\ errData = {}
  /\ errAuthorization = "absent"
  /\ logPc = "idle"
  /\ consoleData = {}
  /\ detailsData = {}
  /\ detailsAuthorization = "absent"

\* a call failed with a response; the request carried a bearer token or none
InitLogFailure ==
  /\ errData \in Bodies
  /\ errAuthorization \in {"absent"} \cup Values
  /\ logPc = "failed"
  /\ consoleData = {}
  /\ detailsData = {}
  /\ detailsAuthorization = "absent"

\* sanitizeObject on one field: the first sensitive key on its path, at any
\* depth, is assigned '[REDACTED]' and what was below it is gone
sanitizeField(f) ==
  IF isSensitiveKey(f.path[1]) THEN [path |-> <<f.path[1]>>, value |-> REDACTED]
  ELSE IF Len(f.path) > 1 /\ isSensitiveKey(f.path[2]) THEN [f EXCEPT !.value = REDACTED]
  ELSE f

\* ApiError.sanitizeData(data)
sanitizeData(data) == {sanitizeField(f) : f \in data}

\* ApiError.sanitizeHeaders(headers), the Authorization header
sanitizeHeaders(authorization) ==
  IF authorization = "absent" THEN "absent" ELSE REDACTED

\* api.js 357-359: a shallow copy of the body whose keys token and refresh
\* are replaced
interceptorSanitized(data) ==
  {IF f.path[1] \in {"token", "refresh"}
     THEN [path |-> <<f.path[1]>>, value |-> REDACTED]
     ELSE f : f \in data}

\* the error handler of the response interceptor logs the failure
InterceptorLog ==
  /\ logPc = "failed"
  /\ logPc' = "intercepted"
  /\ consoleData' = interceptorSanitized(errData)
  /\ UNCHANGED <<errData, errAuthorization, detailsData, detailsAuthorization>>

\* apiCall catches the error: new ApiError(error, context) and logApiError
ApiErrorLog ==
  /\ logPc = "intercepted"
  /\ logPc' = "logged"
  /\ detailsData' = sanitizeData(errData)
  /\ detailsAuthorization' = sanitizeHeaders(errAuthorization)
  /\ UNCHANGED <<errData, errAuthorization, consoleData>>

NextLog == InterceptorLog \/ ApiErrorLog

(***************************************************************************)
(* Specifications                                                          *)
(***************************************************************************)
InitDelivery ==
  /\ delivered = {}
  /\ evicted = {}

Init ==
  /\ InitQueue /\ InitAuth /\ InitTokens(1) /\ InitDequeueIdle /\ InitDelivery
  /\ InitChunk /\ InitManagerIdle /\ InitStreamIdle /\ InitSyncIdle /\ InitErrorIdle
  /\ InitTimer /\ InitLegacy /\ InitLog

\* requests are made with a session or, before sign-in, without one
InitSession ==
  /\ InitQueue /\ InitAuth /\ InitDequeueIdle /\ InitDelivery /\ InitChunk
  /\ InitManagerIdle /\ InitStreamIdle /\ InitSyncIdle /\ InitErrorIdle /\ InitTimer /\ InitLegacy /\ InitLog
  /\ \E t \in {0, 1} : InitTokens(t)

\* the offline queue on its own
SpecQueue ==
  Init /\ [][NextQueue /\ UNCHANGED <<avars, mvars, dvars, lvars, cvars, ovars,
                                   svars, yvars, evars, tvars, gvars, rvars>>]_vars

\* the requests, the response interceptor and the scheduled manual refresh
NextSession ==
  \/ NextAuth /\ UNCHANGED mvars
  \/ NextManual

SpecSession ==
  InitSession /\ [][NextSession /\ UNCHANGED <<qvars, dvars, lvars, cvars, ovars,
                                            svars, yvars, evars, tvars, gvars, rvars>>]_vars

\* one dequeue call on every stored queue of DequeueInputs
InitDequeueCall ==
  /\ InitQueue /\ InitAuth /\ InitTokens(1) /\ InitDelivery /\ InitChunk
  /\ InitManagerIdle /\ InitStreamIdle /\ InitSyncIdle /\ InitErrorIdle /\ InitTimer /\ InitLegacy /\ InitLog
  /\ InitDequeue

SpecDequeue ==
  InitDequeueCall
    /\ [][Dequeue /\ UNCHANGED <<qvars, avars, mvars, storageQ, lvars, cvars,
                                 ovars, svars, yvars, evars, tvars, gvars, rvars>>]_vars

\* the chunk builder fed by one sensor stream
SpecChunk ==
  Init /\ [][NextChunk /\ UNCHANGED <<qvars, avars, mvars, storageQ, dvars, lvars,
                                      ovars, svars, yvars, evars, tvars, gvars, rvars>>]_vars

\* the constructor of the manager on every set of options
InitConstruct ==
  /\ InitQueue /\ InitAuth /\ InitTokens(1) /\ InitDequeueIdle /\ InitDelivery
  /\ InitChunk /\ InitManagerOptions /\ InitStreamIdle /\ InitSyncIdle /\ InitErrorIdle
  /\ InitTimer /\ InitLegacy /\ InitLog

SpecConstruct ==
  InitConstruct
    /\ [][ConstructManager /\ UNCHANGED <<qvars, avars, mvars, storageQ, dvars,
                                         lvars, cvars, svars, yvars, evars, tvars, gvars, rvars>>]_vars

\* a sensor stream and the handling of its chunks; every transmission is
\* answered and every enqueue returns
InitStreaming ==
  /\ InitQueue /\ InitAuth /\ InitTokens(1) /\ InitDequeueIdle /\ InitDelivery
  /\ InitChunk /\ InitManagerIdle /\ InitStream /\ InitSyncIdle /\ InitErrorIdle
  /\ InitTimer /\ InitLegacy /\ InitLog

StreamStep ==
  NextStream /\ UNCHANGED <<qvars, avars, mvars, storageQ, dvars, lvars, ovars,
                           yvars, evars, tvars, gvars, rvars>>

SpecStream ==
  /\ InitStreaming
  /\ [][StreamStep]_vars
  /\ WF_vars(StreamStep /\ ChunkHandled)

\* one run of syncAll on every set of options and every answer of Health
\* Connect and of the server
InitSyncing ==
  /\ InitQueue /\ InitAuth /\ InitTokens(1) /\ InitDequeueIdle /\ InitDelivery
  /\ InitChunk /\ InitManagerIdle /\ InitStreamIdle /\ InitSyncCall /\ InitErrorIdle
  /\ InitTimer /\ InitLegacy /\ InitLog

SpecSync ==
  InitSyncing
    /\ [][NextSync /\ UNCHANGED <<qvars, avars, mvars, storageQ, dvars, lvars,
                                  cvars, ovars, svars, evars, tvars, gvars, rvars>>]_vars

\* the classification of every error object
InitClassify ==
  /\ InitQueue /\ InitAuth /\ InitTokens(1) /\ InitDequeueIdle /\ InitDelivery
  /\ InitChunk /\ InitManagerIdle /\ InitStreamIdle /\ InitSyncIdle /\ InitError
  /\ InitTimer /\ InitLegacy /\ InitLog

SpecClassify ==
  InitClassify
    /\ [][ClassifyError /\ UNCHANGED <<qvars, avars, mvars, storageQ, dvars, lvars,
                                       cvars, ovars, svars, yvars, tvars, gvars, rvars>>]_vars

\* the queue with its auto-processing timer
SpecTimer ==
  Init /\ [][NextTimer /\ UNCHANGED <<avars, mvars, dvars, lvars, cvars, ovars,
                                      svars, yvars, evars, gvars, rvars>>]_vars

\* the legacy sync of one type of the legacy set
SpecLegacy ==
  Init /\ [][NextLegacy /\ UNCHANGED <<qvars, avars, mvars, storageQ, dvars, lvars,
                                       cvars, ovars, svars, yvars, evars,
                                       tvars, rvars>>]_vars

\* the logging of every failed call
InitLogging ==
  /\ InitQueue /\ InitAuth /\ InitTokens(1) /\ InitDequeueIdle /\ InitDelivery
  /\ InitChunk /\ InitManagerIdle /\ InitStreamIdle /\ InitSyncIdle /\ InitErrorIdle
  /\ InitTimer /\ InitLegacy /\ InitLogFailure

SpecLog ==
  InitLogging
    /\ [][NextLog /\ UNCHANGED <<qvars, avars, mvars, storageQ, dvars, lvars,
                                 cvars, ovars, svars, yvars, evars, tvars,
                                 gvars>>]_vars

\* the payloads ingestRecords accepts in this step: a flush at its send whose
\* success counter goes up
acceptedNow ==
  {fBatch[f][fIdx[f]].data :
     f \in {g \in FlushProcs :
              /\ fPc[g] = "send"
              /\ \/ fPc'[g] = "send" /\ fCnt'[g].success = fCnt[g].success + 1
                 \/ fPc'[g] = "returned" /\ fRet'[g].success = fCnt[g].success + 1}}

\* the payloads the capacity branch of enqueue removes in this step
evictedNow ==
  {eEvicted'[c].data : c \in {d \in Callers : ePc[d] = "load" /\ ePc'[d] = "evict"}}

\* the queue with the record of what was delivered and what was evicted
NextDelivery ==
  /\ NextQueue
  /\ delivered' = delivered \cup acceptedNow
  /\ evicted' = evicted \cup evictedNow
  /\ UNCHANGED <<avars, mvars, dvars, cvars, ovars, svars, yvars, evars, tvars,
                 gvars, rvars>>

\* a storage, network or timer callback of the queue
QueueCallback ==
  \/ \E c \in Callers : EnqueueAfterLoad(c)
  \/ \E c \in Callers : EnqueueAfterEvict(c)
  \/ \E c \in EnqProcs : EnqueueReturn(c)
  \/ \E f \in FlushProcs : FlushAfterLoad(f)
  \/ \E f \in FlushProcs : FlushAfterSave(f)
  \/ \E f \in FlushProcs : SendOk(f)
  \/ \E f \in FlushProcs : ReenqueueReturn(f)
  \/ \E f \in FlushProcs : BackoffDone(f)

\* the event loop delivers the callbacks it owes (a callback waits only while
\* promise continuations run) and the transport does not refuse a payload for
\* ever; promise continuations run; the flush timer keeps firing
DeliveryFairness ==
  /\ SF_vars(NextDelivery /\ QueueCallback)
  /\ WF_vars(NextDelivery /\ \E f \in FlushProcs : FlushDone(f))
  /\ WF_vars(NextDelivery /\ \E f \in FlushProcs : Flush(f))

SpecDelivery == Init /\ [][NextDelivery]_vars /\ DeliveryFairness

\* the queue over a storage that can fail
StepFaults ==
  /\ NextFaults
  /\ UNCHANGED <<avars, mvars, dvars, lvars, cvars, ovars, svars, yvars, evars,
                 tvars, gvars, rvars>>

\* the event loop delivers the callbacks it owes, failed ones too, and the
\* transport does not refuse a payload for ever; promise continuations run
FaultsFairness ==
  /\ SF_vars(StepFaults /\ (QueueCallback \/ FaultCallback))
  /\ WF_vars(StepFaults /\ \E f \in FlushProcs : FlushDone(f))

SpecFaults == Init /\ [][StepFaults]_vars /\ FaultsFairness

(***************************************************************************)
(* Properties of the offline queue                                         *)
(***************************************************************************)
activeFlushes == {f \in FlushProcs : fPc[f] \notin {"idle", "returned"}}
holdsBatch(f) == fPc[f] \in {"dqSave", "send", "reenq", "backoff"}

\* C3: the stored queue never holds more than maxQueueSize items, and an
\* enqueue performed at capacity removes exactly one existing item (the list
\* saved by the capacity branch is one short of capacity and no longer holds
\* the removed item) and then inserts the new one (the list saved last is at
\* capacity again and ends with the item built from the call's arguments).
C3_QueueNeverExceedsCapacity ==
  /\ Len(storage) <= maxQueueSize
  /\ \A c \in Callers :
       /\ ePc[c] = "evict" =>
            /\ eEvicted[c] # NoItem
            /\ Len(eItems[c]) = maxQueueSize - 1
            /\ eEvicted[c].id \notin Ids(eItems[c])
       /\ (ePc[c] = "save" /\ eEvicted[c] # NoItem) =>
            /\ Len(eItems[c]) = maxQueueSize
            /\ eEvicted[c].id \notin Ids(eItems[c])
            /\ eItems[c][Len(eItems[c])].data = eArg[c].data
       /\ (ePc[c] = "save" /\ eEvicted[c] = NoItem) =>
            /\ Len(eItems[c]) <= maxQueueSize
            /\ eItems[c][Len(eItems[c])].data = eArg[c].data

\* an enqueue at capacity has evicted one item and stored the new one
C3_Witness ==
  \E c \in Callers :
    /\ ePc[c] = "save"
    /\ eEvicted[c] # NoItem
    /\ storage = eItems[c]
    /\ Len(storage) = maxQueueSize

\* C4 (as claimed): a payload whose delivery keeps failing is re-enqueued at
\* most maxRetries times.  Stated for the runs in which the application has
\* enqueued a single payload: every id but the first was then handed out by a
\* re-enqueue of that payload, so the re-enqueues number nextId - 2.
C4_ReenqueuedAtMostMaxRetries ==
  nextPayload = 2 => nextId - 2 <= maxRetries

\* C5 (as claimed): the retries value recorded for the queue item grows by one
\* with every failed delivery: the item stored by a re-enqueue carries the
\* incremented count of the item whose delivery just failed.
C5_RetriesRecordedPerFailure ==
  \A f \in FlushProcs :
    (fPc[f] = "reenq" /\ ePc[f] = "save") =>
      eItems[f][Len(eItems[f])].retries = fBatch[f][fIdx[f]].retries

\* C6 (as claimed): when the capacity branch finds no low-priority item, the
\* item it removes is the one with the earliest enqueue time.
C6_EvictsOldestWhenNoLow ==
  \A c \in Callers :
    (ePc[c] = "evict" /\ eEvicted[c].priority # "low") =>
      \A i \in Range(eItems[c]) : eEvicted[c].timestamp <= i.timestamp

\* C7: when enqueue is called at capacity and the queue holds a low-priority
\* item, the item removed is a low-priority item, and none of the
\* low-priority items left has an earlier enqueue time; so no high- or
\* normal-priority item is removed.
C7_EvictsOldestLow ==
  \A c \in Callers :
    (/\ ePc[c] = "evict"
     /\ \/ eEvicted[c].priority = "low"
        \/ \E i \in Range(eItems[c]) : i.priority = "low") =>
      /\ eEvicted[c].priority = "low"
      /\ \A i \in Range(eItems[c]) :
           i.priority = "low" => eEvicted[c].timestamp <= i.timestamp

\* the capacity branch chose between two low-priority items of different age
C7_Witness ==
  \E c \in Callers :
    /\ ePc[c] = "evict"
    /\ eEvicted[c].priority = "low"
    /\ \E i \in Range(eItems[c]) :
         i.priority = "low" /\ eEvicted[c].timestamp < i.timestamp

\* C8: a flush invoked while another flush of the instance has not finished
\* returns {success:0, failed:0, retried:0} and holds no batch; at most one
\* flush is past the guard at any time, the flag is set exactly while one is,
\* and no item is in the batches of two flushes.
C8_FlushSingleFlight ==
  /\ Cardinality(activeFlushes) <= 1
  /\ isProcessing <=> activeFlushes # {}
  /\ \A f \in FlushProcs :
       fRefused[f] =>
         /\ fPc[f] = "returned"
         /\ fRet[f] = ZeroCounts
         /\ fBatch[f] = <<>> /\ dItems[f] = <<>>
         /\ \E g \in FlushProcs \ {f} : g \in activeFlushes
  /\ \A f, g \in FlushProcs :
       f # g => Ids(fBatch[f]) \cap Ids(fBatch[g]) = {}

\* a second flush was refused while the first waits in its backoff delay
C8_Witness ==
  \E f, g \in FlushProcs :
    /\ fRefused[f] /\ fRet[f] = ZeroCounts
    /\ fPc[g] = "backoff"
    /\ storage # <<>>

\* C9 (as claimed): the selection and removal of dequeue is atomic with
\* respect to every other access of the stored queue: no item handed to
\* flush by dequeue is still in storage.
C9_DequeuedItemsLeaveStorage ==
  \A f \in FlushProcs :
    holdsBatch(f) => Ids(fBatch[f]) \cap Ids(storage) = {}


\* item a is not after item b in the order dequeue serves: higher priority
\* first, then earlier enqueue time
servedNoLater(a, b) ==
  \/ getPriorityWeight(a.priority) > getPriorityWeight(b.priority)
  \/ /\ getPriorityWeight(a.priority) = getPriorityWeight(b.priority)
     /\ a.timestamp <= b.timestamp

\* C15: dequeue(maxBatch) returns min(maxBatch, queue length) items, in the
\* order high > normal > low and oldest first within a priority; no item it
\* leaves behind should have been served before one it returned; the items
\* saved back are exactly the loaded items that were not returned.
C15_DequeueOrderAndRemainder ==
  dqPc = "done" =>
    /\ Len(dqOut) = Min(dqMaxBatch, Len(dqItems))
    /\ \A i, j \in 1..Len(dqOut) : i < j => servedNoLater(dqOut[i], dqOut[j])
    /\ \A i \in 1..Len(dqOut), j \in 1..Len(dqLeft) : servedNoLater(dqOut[i], dqLeft[j])
    /\ Len(dqOut) + Len(dqLeft) = Len(dqItems)
    /\ Range(dqOut) \cup Range(dqLeft) = Range(dqItems)
    /\ Ids(dqOut) \cap Ids(dqLeft) = {}

\* a dequeue took a full batch from a longer queue that was stored with a
\* low-priority item first, and returned a high-priority item first
C15_Witness ==
  /\ dqPc = "done"
  /\ Len(dqOut) = dqMaxBatch
  /\ dqLeft # <<>>
  /\ dqItems[1].priority = "low"
  /\ dqOut[1].priority = "high"
  /\ dqOut[1].timestamp > dqItems[1].timestamp

\* every copy of the queue or of a batch a call holds
heldItems ==
  Range(storage)
    \cup UNION {Range(fBatch[f]) : f \in FlushProcs}
    \cup UNION {Range(dItems[f]) : f \in FlushProcs}
    \cup UNION {Range(eItems[c]) : c \in Callers}

\* C16: every queue item, in storage, in a list a call has loaded or in a
\* batch being flushed, has a retry count between 0 and the configured
\* maxRetries.
C16_RetriesWithinBounds ==
  \A item \in heldItems : 0 <= item.retries /\ item.retries <= maxRetries

\* C16 witness: a delivery failed and the batch item now carries maxRetries
\* retries.
C16_Witness ==
  \E f \in FlushProcs :
    /\ fPc[f] \in {"reenq", "backoff"}
    /\ fBatch[f][fIdx[f]].retries = maxRetries

countsSum(counts) == counts.success + counts.failed + counts.retried

C19_EmptyFlushIsNoOp ==
  [][\A f \in FlushProcs :
       (fPc[f] = "dqLoad" /\ dItems[f] = <<>> /\ fPc'[f] # "dqLoad")
         => /\ fPc'[f] = "returned"
            /\ fRet'[f] = ZeroCounts
            /\ ~fRefused'[f]
            /\ fBatch'[f] = <<>>
            /\ storage' = storage
            /\ ~isProcessing']_vars

\* C19 witness: a flush of the empty queue has returned the zero counts, the
\* queue is empty and the flag is released.
C19_Witness ==
  \E f \in FlushProcs :
    /\ fPc[f] = "returned"
    /\ fRet[f] = ZeroCounts
    /\ ~fRefused[f]
    /\ storage = <<>>
    /\ ~isProcessing

\* enqueue has returned for the payload
accepted(p) ==
  /\ p < nextPayload
  /\ \A c \in EnqProcs : eArg[c].data # p

\* C18: with a transport that ends up accepting and a flush that keeps being
\* called, every payload whose enqueue returned is eventually delivered
\* unless the capacity branch evicted it, and the stored queue ends up empty.
C18_EveryItemEventuallyDelivered ==
  /\ \A p \in 1..MaxPayloads : [](accepted(p) => <>(p \in delivered \cup evicted))
  /\ <>[](storage = <<>>)

(***************************************************************************)
(* Properties of the accelerometer chunk builder                           *)
(***************************************************************************)
\* C20: the buffer never holds more than maxSamples samples, and neither does
\* a chunk returned by addSample or by forceFlush.
C20_ChunkWithinMaxSamples ==
  /\ Len(samples) <= maxSamples
  /\ Len(lastChunk.samples) <= maxSamples

\* C20 witness: addSample has just sealed a chunk of maxSamples samples, after
\* a forced flush had emitted a shorter one.
C20_Witness ==
  /\ lastCall = "addSample"
  /\ Len(lastChunk.samples) = maxSamples
  /\ added > maxSamples

\* C21: addSample returns a chunk exactly when the sample it adds is number
\* maxSamples of the buffer, and then leaves the buffer empty and startedAt
\* unset; otherwise it returns null and the buffer is one sample longer.  So
\* after n addSample calls in a row on an empty builder, floor(n / maxSamples)
\* chunks were returned and n mod maxSamples samples are buffered.
C21_SealsExactlyAtMaxSamples ==
  /\ [](/\ sealed = streak \div maxSamples
        /\ Len(samples) = streak % maxSamples)
  /\ [][added' = added + 1 =>
          IF Len(samples) + 1 = maxSamples
          THEN /\ lastChunk' # NoChunk
               /\ Len(lastChunk'.samples) = maxSamples
               /\ samples' = <<>>
               /\ startedAt' = Null
          ELSE /\ lastChunk' = NoChunk
               /\ Len(samples') = Len(samples) + 1
               /\ startedAt' # Null]_vars

\* C21 witness: maxSamples + 1 addSample calls in a row have returned one
\* chunk and left one sample in the buffer.
C21_Witness ==
  /\ streak = maxSamples + 1
  /\ sealed = 1
  /\ Len(samples) = 1
  /\ lastCall = "addSample"

\* the chunk entry carries the buffered sample: same readings, same ts, and
\* the same offset when the sample has no ts
sameSample(entry, sample) ==
  /\ entry.x = sample.x
  /\ entry.ts = sample.ts
  /\ sample.ts = Null => entry.tOffsetMs = sample.tOffsetMs

\* C22: forceFlush on an empty buffer returns null and changes nothing; on a
\* buffer of k >= 1 samples it returns a chunk holding those k samples in
\* arrival order, with the window's startedAt, and leaves the buffer empty
\* and startedAt unset.
C22_ForceFlushReturnsTheBuffer ==
  [][(lastCall' = "forceFlush" /\ added' = added) =>
       IF samples = <<>>
       THEN /\ lastChunk' = NoChunk
            /\ samples' = samples
            /\ startedAt' = startedAt
       ELSE /\ lastChunk' # NoChunk
            /\ lastChunk'.startedAt = startedAt
            /\ Len(lastChunk'.samples) = Len(samples)
            /\ \A i \in 1..Len(samples) : sameSample(lastChunk'.samples[i], samples[i])
            /\ samples' = <<>>
            /\ startedAt' = Null]_vars

\* C22 witness: a forced flush has returned a partial chunk of two samples
\* and the builder is empty again.
C22_Witness ==
  /\ lastCall = "forceFlush"
  /\ Len(lastChunk.samples) = 2
  /\ samples = <<>>
  /\ startedAt = Null

\* C23: the chunk builder of a manager constructed for a sample rate and a
\* chunk duration has maxSamples = floor(sampleRateHz * chunkDurationMs / 1000).
C23_MaxSamplesFromRateAndDuration ==
  mgrPc = "built" =>
    mgrMaxSamples = (mgrSampleRateHz * mgrChunkDurationMs) \div 1000

\* C24: the builder does not keep a window open past its time threshold: no
\* sample taken chunkDurationMs or more after the window's startedAt is in
\* the buffer, the window having been sealed by then.
C24_WindowSealedAtTimeThreshold ==
  \A i \in 1..Len(samples) :
    samples[i].ts # Null => samples[i].ts - startedAt < chunkDurationMs

\* the positions of the chunk whose entry carries a tOffsetMs
offsetEntries(chunk) ==
  {i \in 1..Len(chunk.samples) : chunk.samples[i].tOffsetMs # Null}

\* C25: in every chunk addSample or forceFlush returns, the tOffsetMs values
\* are offsets from the chunk's startedAt (none is negative) and do not
\* decrease along the samples array.
C25_OffsetsNonDecreasing ==
  /\ \A i \in offsetEntries(lastChunk) : lastChunk.samples[i].tOffsetMs >= 0
  /\ \A i, j \in offsetEntries(lastChunk) :
       i < j => lastChunk.samples[i].tOffsetMs <= lastChunk.samples[j].tOffsetMs

(***************************************************************************)
(* Properties of the sensor stream                                         *)
(***************************************************************************)
\* C26: stopping the stream seals what is buffered, and every sealed chunk
\* ends up acknowledged by the server or stored in the offline queue; none
\* is dropped.
C26_SealedChunksAckedOrStored ==
  /\ [][(isStreaming /\ ~isStreaming') =>
          /\ samples' = <<>> /\ ~nativeBuffered'
          /\ (samples # <<>> \/ nativeBuffered) => chunksSealed' = chunksSealed + 1]_vars
  /\ \A k \in Chunks :
       [](chunkFate[k] # "none" => <>(chunkFate[k] \in {"acked", "stored"}))
  /\ [](\A k \in Chunks : chunkFate[k] # "dropped")

(***************************************************************************)
(* Properties of syncAll                                                   *)
(***************************************************************************)
\* an endpoint took the records of the type
succeeded(type) ==
  typeResults[type].ingest = "ok" \/ typeResults[type].sync = "ok"

\* the records of the types up to `type` that an endpoint took
RECURSIVE succeededRecords(_)
succeededRecords(type) ==
  IF type = 0 THEN 0
  ELSE succeededRecords(type - 1)
         + (IF succeeded(type) THEN recordCounts[type] ELSE 0)

\* the requests syncRecordsToEndpoint owes the type were made and answered
submittedType(type) ==
  /\ (useIngest(type) \/ parallelMode) => typeResults[type].ingest \in {"ok", "error"}
  /\ (~useIngest(type) \/ parallelMode) => typeResults[type].sync \in {"ok", "error"}

\* C27: a type that cannot be read or is refused by the server does not stop
\* the run: with a callback that does not throw outside the loop, the run
\* throws only before the first read; when it returns, every type that has
\* records was submitted, and the returned total is the number of records of
\* the types an endpoint took.
C27_FailedTypeDoesNotStopTheRun ==
  /\ (syncPc = "thrown" /\ onProgress \in {"none", "returns", "throwsOnType"}) =>
       /\ readFailed = {}
       /\ \A t \in Types : typeResults[t] = NoResults
  /\ syncPc = "returned" =>
       /\ \A t \in Types : recordCounts[t] > 0 => submittedType(t)
       /\ \A t \in Types : recordCounts[t] = 0 => typeResults[t] = NoResults
       /\ syncResult.total = succeededRecords(NTypes)
       /\ syncResult.requested = totalRecords

\* C27 witness: three types have records, the server refuses the second
\* one, and the run returns the records of the first and the third.
C27_Witness ==
  /\ syncPc = "returned"
  /\ \A t \in 1..3 : recordCounts[t] > 0
  /\ succeeded(1) /\ ~succeeded(2) /\ succeeded(3)
  /\ submittedType(2)
  /\ syncResult.total = recordCounts[1] + recordCounts[3]

\* the positions in the progress log that carry the type
emissionsOf(type) == {i \in 1..Len(progress) : progress[i].currentType = type}

\* C28: every progress report has 0 <= current <= total and current never
\* goes down; in a run that returns, each submitted type has one 'syncing'
\* report that carries it, in the order of the types and with the records
\* synced so far, and the one 'completed' report is the last one.
C28_ProgressReports ==
  /\ \A i \in 1..Len(progress) :
       0 <= progress[i].current /\ progress[i].current <= progress[i].total
  /\ \A i, j \in 1..Len(progress) :
       i <= j => progress[i].current <= progress[j].current
  /\ (syncPc = "returned" /\ onProgress # "none") =>
       /\ Len(progress) >= 2
       /\ progress[Len(progress)].phase = "completed"
       /\ \A i \in 1..(Len(progress) - 1) : progress[i].phase = "syncing"
       /\ \A t \in Types :
            IF recordCounts[t] > 0
              THEN /\ Cardinality(emissionsOf(t)) = 1
                   /\ \A i \in emissionsOf(t) :
                        progress[i].current = succeededRecords(t)
              ELSE emissionsOf(t) = {}
       /\ \A t, u \in Types : \A i \in emissionsOf(t), j \in emissionsOf(u) :
            t < u => i < j

\* C28 witness: a run with a callback returned after a type that was refused
\* and a type that was taken.
C28_Witness ==
  /\ syncPc = "returned"
  /\ onProgress # "none"
  /\ Len(progress) >= 4
  /\ \E t, u \in Types :
       /\ recordCounts[t] > 0 /\ ~succeeded(t)
       /\ recordCounts[u] > 0 /\ succeeded(u)

\* C29: a run that returns has emitted SYNC_COMPLETED with timestamp and
\* total and nothing else, a run that throws has emitted SYNC_ERROR with
\* error and nothing else, and nothing is emitted before the run ends.
C29_ExactlyOneTerminalEvent ==
  /\ syncPc = "returned" =>
       /\ Len(events) = 1
       /\ events[1].event = "SYNC_COMPLETED"
       /\ {"timestamp", "total"} \subseteq events[1].payload.keys
       /\ events[1].payload.total = syncResult.total
  /\ syncPc = "thrown" =>
       /\ Len(events) = 1
       /\ events[1].event = "SYNC_ERROR"
       /\ events[1].payload.keys = {"error"}
  /\ syncPc \notin {"returned", "thrown"} => events = <<>>

\* C30: in parallelMode the request to /sync is on the wire while the request
\* to /ingest is, and a type that was submitted has an answer from both
\* endpoints, whatever the answers are.
C30_DualWriteIsConcurrent ==
  parallelMode =>
    /\ syncPc = "ingest" => results.sync = "sent"
    /\ \A t \in Types :
         (typeResults[t] # NoResults /\ (t # typeIdx \/ syncPc \in {"returned", "thrown"}))
           => /\ typeResults[t].ingest \in {"ok", "error"}
              /\ typeResults[t].sync \in {"ok", "error"}

\* C32: while flush waits after a re-enqueue, the wait is the entry of the
\* queue's configured delay list at min(retries, length - 1), retries being
\* the retry count of the failed item, and is at most the last entry.
C32_BackoffFollowsConfiguredSchedule ==
  \A f \in FlushProcs :
    fPc[f] = "backoff" =>
      LET item == fBatch[f][fIdx[f]]
      IN /\ fDelay[f] = retryDelays[Min(item.retries, Len(retryDelays) - 1) + 1]
         /\ fDelay[f] <= retryDelays[Len(retryDelays)]

onTheWire(type) ==
  {endpoint \in {"ingest", "sync"} :
     (IF endpoint = "ingest" THEN typeResults[type].ingest
                             ELSE typeResults[type].sync) = "sent"}

\* C34: in a syncAll run at most one submission is in flight; a type is
\* submitted only when the types before it are answered; and nothing is
\* submitted before the last read of the first pass has completed.
C34_OneSubmissionAtATime ==
  /\ Cardinality({t \in Types : onTheWire(t) # {}}) <= 1
  /\ \A t \in Types : Cardinality(onTheWire(t)) <= 1
  /\ \A t, u \in Types :
       (t < u /\ typeResults[u] # NoResults) => onTheWire(t) = {}
  /\ syncPc \in {"call", "initialize", "permissions", "read"} =>
       \A t \in Types : typeResults[t] = NoResults

\* C34 witness: the third type is on the wire after the first was taken and
\* the second refused.
C34_Witness ==
  /\ syncPc \in {"ingest", "sync"}
  /\ typeIdx = 3
  /\ onTheWire(3) # {}
  /\ succeeded(1)
  /\ recordCounts[2] > 0 /\ ~succeeded(2)

\* C35: the records of a legacy type are submitted one at a time: at most one
\* request is in flight, and the request of a record starts only when the
\* request of the record before it has finished.
C35_LegacyRecordsOneAtATime ==
  /\ Cardinality({j \in LegacyRecords : legacyPc[j] \in {"read", "post"}}) <= 1
  /\ \A j \in LegacyRecords :
       (j > 1 /\ legacyPc[j] \in {"read", "post", "done"}) => legacyPc[j - 1] = "done"

(***************************************************************************)
(* Properties of the error classifier                                      *)
(***************************************************************************)
\* C31: a classified error has one of the six types: NETWORK without a
\* response, AUTH for 401 and for 403 with an invalid-token body, SERVER for
\* 5xx, VALIDATION for the other 4xx (a 403 with another body included),
\* TIMEOUT for a request that timed out; and AUTH is given to exactly the
\* errors the response interceptor answers with a token refresh.
C31_ErrorTaxonomy ==
  errType # "none" =>
    /\ errType \in {"NETWORK", "AUTH", "SERVER", "VALIDATION", "TIMEOUT", "UNKNOWN"}
    /\ (errStatus = Null /\ errRequest /\ errCode # "ECONNABORTED") => errType = "NETWORK"
    /\ invalidTokenError(errStatus, errInvalidTokenBody) => errType = "AUTH"
    /\ (errStatus # Null /\ errStatus >= 500) => errType = "SERVER"
    /\ (/\ errStatus # Null /\ errStatus >= 400 /\ errStatus < 500
        /\ ~invalidTokenError(errStatus, errInvalidTokenBody)) => errType = "VALIDATION"
    /\ (errStatus = Null /\ errCode = "ECONNABORTED") => errType = "TIMEOUT"
    /\ errType = "AUTH" <=> invalidTokenError(errStatus, errInvalidTokenBody)

\* C38: ingestRecords accepts each enqueued payload at most once, also when
\* an enqueue overlaps the dequeue of a flush.
C38_TransmittedAtMostOnce ==
  [][acceptedNow \cap delivered = {}]_vars

\* C39: the flag is released in the step in which a flush ends, by a return or
\* by an exception of storage or of the re-enqueue; while no flush is running
\* isProcessing is false; and a set flag is always released later, so that a
\* later flush is not refused for ever.
C39_FlagReleasedWhenFlushEnds ==
  /\ [][\A f \in FlushProcs :
          (f \in activeFlushes /\ fPc'[f] = "returned") => ~isProcessing']_vars
  /\ [](activeFlushes = {} => ~isProcessing)
  /\ (isProcessing ~> ~isProcessing)

\* C39 witness: a flush has ended by an exception and the flag is released.
C39_Witness ==
  \E f \in FlushProcs :
    /\ fPc[f] = "returned"
    /\ fRet[f] = Rejected
    /\ ~isProcessing

\* C40: the samples of the chunks a builder has returned, in the order
\* returned, followed by its buffer, are the samples passed to addSample, each
\* once and in the order passed; and while the manager is not streaming the
\* buffer of its builder is empty.
C40_SamplesConserved ==
  /\ emitted \o readings(samples) = [i \in 1..added |-> i]
  /\ ~isStreaming => samples = <<>>

\* C40 witness: the manager has stopped after more samples than one chunk
\* holds: addSample returned a full chunk and forceFlush the rest.
C40_Witness ==
  /\ ~isStreaming
  /\ lastCall = "forceFlush"
  /\ lastChunk # NoChunk
  /\ added > maxSamples
  /\ Len(emitted) = added

(***************************************************************************)
(* Properties of the failure logging                                       *)
(***************************************************************************)
\* a field under a sensitive key that still shows its value
exposed(fields) ==
  {f \in fields :
     /\ \E i \in 1..Len(f.path) : isSensitiveKey(f.path[i])
     /\ f.value # REDACTED}

\* two bodies that differ only in the values under sensitive keys
sameButSecrets(d, e) ==
  /\ {f.path : f \in d} = {f.path : f \in e}
  /\ \A f \in d, g \in e :
       (f.path = g.path /\ f.value # g.value) =>
         \E i \in 1..Len(f.path) : isSensitiveKey(f.path[i])

\* C36: what is logged of a failure shows no value under a key that contains
\* password, token, refresh, secret or key, at any depth, and no
\* Authorization header; two failures that differ only in those values are
\* logged alike.
C36_LogsExposeNoCredential ==
  /\ logPc \in {"intercepted", "logged"} =>
       /\ exposed(consoleData) = {}
       /\ \A e \in Bodies :
            sameButSecrets(errData, e) => interceptorSanitized(e) = consoleData
  /\ logPc = "logged" =>
       /\ exposed(detailsData) = {}
       /\ detailsAuthorization \in {"absent", REDACTED}
       /\ \A e \in Bodies :
            sameButSecrets(errData, e) => sanitizeData(e) = detailsData

(***************************************************************************)
(* Properties of the session refresh coordinator                           *)
(***************************************************************************)
\* positions of a request between apiClient(request) and its response
inFlight == {"reqGet1", "reqGet2", "sent"}

\* the requests that took the refresh path of the response interceptor
refreshBatch == {r \in Requests : retryFlag[r]}

\* the refresh calls on the wire: the interceptor's and refreshTokenFunc's
outstandingRefreshCalls ==
  Cardinality({r \in Requests : rPc[r] = "refreshing"})
    + (IF mPc = "refreshing" THEN 1 ELSE 0)

\* C1: when every auth-failing request is handled before the first refresh
\* attempt has ended and a refresh token is stored, exactly one refresh call is
\* issued; once a successful refresh has been announced every such request has
\* been sent a second time carrying the new access token (or one issued after
\* it), and after a failed refresh none of them succeeds.
C1_OneRefreshForTheBatch ==
  (~lateJoin /\ firstOutcome \in {"ok", "fail"}) =>
     /\ refreshCalls = 1
     /\ (firstOutcome = "ok" /\ ~isRefreshing) =>
          \A r \in refreshBatch :
             /\ sends[r] = 2
             /\ rPc[r] \in inFlight => hdr[r] >= firstTok
     /\ firstOutcome = "fail" =>
          \A r \in refreshBatch : rPc[r] # "ok"

\* the requests whose interceptor is running a refresh attempt
refreshAttempts ==
  {r \in Requests : rPc[r] \in {"getLogin", "getRefresh", "refreshing", "save1", "save2"}}

\* the requests whose interceptor is in the catch block of a failed refresh
failureHandlers == {r \in Requests : rPc[r] \in {"failClear1", "failClear2"}}

\* the requests whose subscriber callback was called with null
notifiedNull == {r \in Requests : 0 \in SeqRange(notified[r])}

\* the requests whose interceptor runs the subscriber callbacks in this step
notifying == {r \in Requests : rPc[r] \in {"save2", "failClear2"} /\ rPc'[r] # rPc[r]}

\* C37: a subscriber is called, and the subscriber list emptied, only by the
\* refresh attempt that was in progress when the subscriber subscribed, also
\* when a second refresh has started while a failed one is still clearing the
\* session.
C37_NotifiedByOwnAttempt ==
  [][\A q \in Requests :
       (rPc[q] = "subscribed" /\ rPc'[q] # "subscribed") =>
         subscribedTo[q] \in notifying]_vars

\* C11: when the refresh call fails, both stored tokens are cleared by the
\* time clearTokens has resolved, every subscriber is then called with null,
\* is re-sent without a usable token and does not succeed, the session-expired
\* handler is called once for each failed refresh, and the flag is held only
\* while an attempt is in progress.
C11_RefreshFailureHandled ==
  /\ handlerCalls + Cardinality(failureHandlers) = refreshFailures
  /\ failureHandlers # {} => accessTok = 0
  /\ (\E r \in Requests : rPc[r] = "failClear2") => refreshTok = 0
  /\ \A r \in notifiedNull :
       /\ rPc[r] \in inFlight \cup {"failed"}
       /\ rPc[r] \in inFlight => hdr[r] = 0
  /\ isRefreshing <=> refreshAttempts # {}

\* C12 (as claimed): when the refresh call has succeeded and saveTokens has
\* resolved, the store holds the new token pair; in that step every subscriber
\* is called with the new access token, for the first and only time, and it
\* and the initiating request are sent again carrying a token that is not
\* older than the new one; the subscriber list is emptied and the flag
\* released.
C12_RefreshSuccessHandled ==
  /\ [](\A r \in Requests : Len(notified[r]) <= 1)
  /\ [][\A r \in Requests :
          (rPc[r] = "save2" /\ rPc'[r] # "save2") =>
            LET t == rLocal[r].newAccess
                subs == SeqRange(refreshSubscribers)
            IN /\ t # 0
               /\ accessTok = t
               /\ refreshTok = rLocal[r].newRefresh
               /\ \A q \in subs : notified'[q] = <<t>>
               /\ \A q \in Requests \ subs : notified'[q] = notified[q]
               /\ \A q \in subs \cup {r} :
                    /\ rPc'[q] = "reqGet1"
                    /\ sends'[q] = 2
                    /\ hdr'[q] >= t
               /\ refreshSubscribers' = <<>>
               /\ ~isRefreshing']_vars

\* the requests whose interceptor found no refresh token and is clearing
abortHandlers == {r \in Requests : rPc[r] \in {"abortClear1", "abortClear2"}}

\* C13 (as claimed): when the interceptor finds no stored refresh token it
\* issues no refresh call and releases the flag; the access token is absent
\* from then on and the refresh token once the first removeItem has resolved;
\* when clearTokens has resolved the request is rejected, never having been
\* sent again.
C13_NoRefreshTokenAborts ==
  /\ [](/\ abortHandlers # {} => accessTok = 0
        /\ (\E r \in Requests : rPc[r] = "abortClear2") => refreshTok = 0
        /\ \A r \in abortHandlers : sends[r] = 1
        /\ isRefreshing <=> refreshAttempts # {})
  /\ [][\A r \in Requests :
          /\ (rPc[r] = "getRefresh" /\ rPc'[r] # "getRefresh" /\ rLocal[r].stored = 0) =>
               /\ rPc'[r] = "abortClear1"
               /\ refreshCalls' = refreshCalls
               /\ ~isRefreshing'
          /\ (rPc[r] = "abortClear2" /\ rPc'[r] # "abortClear2") =>
               /\ rPc'[r] = "failed"
               /\ refreshCalls' = refreshCalls
               /\ accessTok' = 0 /\ refreshTok' = 0]_vars

\* C14 (as claimed): once no refresh attempt is in progress and every handler
\* of an ended attempt has finished, no request is left on the subscriber list
\* waiting for a notification.
C14_NoSubscriberLeftBehind ==
  (~isRefreshing /\ failureHandlers = {} /\ abortHandlers = {}) =>
     /\ refreshSubscribers = <<>>
     /\ \A r \in Requests : rPc[r] # "subscribed"

\* C2: at most one POST /refresh is outstanding at any time, the calls of the
\* periodic manual refresh function included.
C2_AtMostOneRefreshOutstanding == outstandingRefreshCalls <= 1

\* C10: a request is sent at most twice; it is sent a second time only after
\* it was marked _retry and a refresh was attempted; a request that is already
\* on its second send never waits for or starts a refresh, and its failure is
\* final; a failure that is not an auth failure is final without retry and
\* without refresh.
C10_RetriedAtMostOnce ==
  \A r \in Requests :
     /\ sends[r] <= 2
     /\ sends[r] = 2 => retryFlag[r] /\ firstOutcome \in {"ok", "fail"}
     /\ rPc[r] \notin ({"new", "ok", "failed"} \cup inFlight) =>
          sends[r] = 1 /\ retryFlag[r]
     /\ (sends[r] = 2 /\ resp[r] \in {"auth", "other"}) => rPc[r] = "failed"
     /\ (sends[r] = 1 /\ resp[r] = "other") => rPc[r] = "failed" /\ ~retryFlag[r]

\* C10 witness: a request that was re-sent after a refresh failed
\* authentication again and was returned to its caller
C10_Witness ==
  \E r \in Requests :
     /\ sends[r] = 2
     /\ resp[r] = "auth"
     /\ rPc[r] = "failed"
     /\ firstOutcome = "ok"

====
